---- MODULE Spec2Model ----
(***************************************************************************)
(* A model of the RabbitMQ client of msa-core                              *)
(* (pkg/infrastructure/rabbitmq/rabbitmq.go): the background consume loop  *)
(* started by ConsumeWithOptions, the dead-letter provisioning protocol    *)
(* SetupDLXForQueue, the queue and dead-letter declarations, publishing,   *)
(* and the construction and closing of the client, against a broker.       *)
(*                                                                         *)
(* The broker and the caller-supplied message handler are the environment: *)
(* the broker accepts or rejects each call, the handler returns nil,       *)
(* returns an error, or never returns.                                     *)
(***************************************************************************)
EXTENDS Integers, Sequences, FiniteSets, TLC

\* ------------------------------------------------------------------ bounds

\* Deliveries the broker pushes on one delivery stream.
MaxDeliveries == 3

\* Messages waiting in the source queue before SetupDLXForQueue is called.
MaxQueueMessages == 1

\* ------------------------------------------------------------- the state

VARIABLES
    \* --- ConsumeWithOptions and its background goroutine
    consumeResult,   \* what ConsumeWithOptions returned: "none" (not called), "nil", "error"
    autoAck,         \* options.AutoAck of the call
    deliveries,      \* the Go channel returned by channel.Consume: deliveries not yet read
    deliveriesOpen,  \* FALSE once the broker or the library closed that Go channel
    loopPc,          \* the goroutine: "none", "range" (at line 276), "handler" (in line 327), "exited"
    running,         \* deliveries whose handler call has not returned
    blocked,         \* tags of the deliveries whose handler never returns
    dispatched,      \* tags in the order they were passed to the handler
    outcome,         \* per tag: "none", "ok" (handler returned nil), "err"
    acked,           \* the Ack/Nack calls made on deliveries, in order
    nextTag,         \* delivery tag of the next delivery of the broker
    callerCtx,       \* the ctx passed to ConsumeWithOptions: "live" or "cancelled"
    handlerCtxs,     \* per handler call, in order: the context it was given, the caller ctx then
    \* --- the broker, as seen through r.channel
    channelOpen,     \* r.channel is usable; a rejected call may close it
    exchanges,       \* exchange name -> attributes, for the exchanges that exist
    queues,          \* queue name -> attributes, argument table and message count
    bindings,        \* set of [queue, key, exchange]
    calls,           \* the broker calls issued by the client, in order
    \* --- one SetupDLXForQueue call
    setupPc,         \* position in SetupDLXForQueue
    setupArgs,       \* its parameters: queueName, dlxName, dlqName, options
    queueExists,     \* the local variable of line 704
    setupResult,     \* what it returned: "none" while running, "nil", or the error
    \* --- the other operations of the client
    ops,             \* the completed single-call operations: inputs and returned value
    stored,          \* the deliveries the broker routed to queues, not yet consumed
    received,        \* the deliveries passed to a handler, with their body
    \* --- NewRabbitMQClient and Close
    client,          \* "none" (no client returned), "ready" (returned by the constructor)
    conn,            \* r.conn on the broker side: "none", "open", "closed"
    closePc,         \* position in Close: "idle", "channel", "conn", "return"
    closeErrs,       \* the local errs of Close
    closeResults,    \* what each Close call returned
    \* --- messages of a queue that come back when they are requeued
    requeued         \* per message: where it is, whether it was delivered before, its nacks

consumerVars == <<consumeResult, autoAck, deliveries, deliveriesOpen, loopPc, running,
                  blocked, dispatched, outcome, acked, nextTag, callerCtx, handlerCtxs>>

brokerVars == <<channelOpen, exchanges, queues, bindings, calls>>

setupVars == <<setupPc, setupArgs, queueExists, setupResult>>

apiVars == <<ops, stored, received>>

lifeVars == <<client, conn, closePc, closeErrs, closeResults>>

requeueVars == <<requeued>>

vars == <<consumerVars, brokerVars, setupVars, apiVars, lifeVars, requeueVars>>

Tags == 1..MaxDeliveries

\* ====================================================================
\* Consumer
\* ====================================================================

\* amqp.Delivery, reduced to what the loop uses to acknowledge it.
Delivery(tag) == [tag |-> tag]

\* delivery.Nack(false, true) of a failed delivery; failed: the call itself returned an error.
NackCallDiscard(d, failed) ==
    [tag |-> d.tag, kind |-> "nack", multiple |-> FALSE, requeue |-> FALSE, failed |-> failed]

NackCall(d, failed) ==
    [tag |-> d.tag, kind |-> "nack", multiple |-> FALSE, requeue |-> TRUE, failed |-> failed]

\* delivery.Ack(false) of a handled delivery.
AckCallMultiple(d, failed) ==
    [tag |-> d.tag, kind |-> "ack", multiple |-> TRUE, requeue |-> FALSE, failed |-> failed]

AckCall(d, failed) ==
    [tag |-> d.tag, kind |-> "ack", multiple |-> FALSE, requeue |-> FALSE, failed |-> failed]

\* Lines 328-353: the acknowledgment calls made once the handler returned herr:
\* none with AutoAck. (Variant: the calls made whatever the mode.)
AcknowledgeInEveryMode(d, herr, failed) ==
    IF herr THEN Append(acked, NackCall(d, failed))
            ELSE Append(acked, AckCall(d, failed))

Acknowledge(d, herr, failed) ==
    IF autoAck
    THEN acked
    ELSE IF herr THEN Append(acked, NackCall(d, failed))
                 ELSE Append(acked, AckCall(d, failed))

\* Where the goroutine goes after a delivery: line 355 falls through to the range.
AfterDeliveryStopOnError(herr, failed) == IF herr \/ failed THEN "exited" ELSE "range"

AfterDelivery(herr, failed) == "range"

ConsumerInit ==
    /\ consumeResult = "none"
    /\ autoAck = FALSE
    /\ deliveries = <<>>
    /\ deliveriesOpen = FALSE
    /\ loopPc = "none"
    /\ running = {}
    /\ blocked = {}
    /\ dispatched = <<>>
    /\ outcome = [t \in Tags |-> "none"]
    /\ acked = <<>>
    /\ nextTag = 1
    /\ callerCtx = "live"
    /\ handlerCtxs = <<>>

\* Lines 235-360. channel.Consume either fails, and the error is returned with no
\* goroutine started, or returns the delivery stream, and the goroutine is started
\* and nil returned.
ConsumeWithOptionsCall(optAutoAck, consumeOk) ==
    /\ consumeResult = "none"
    /\ autoAck' = optAutoAck
    /\ IF consumeOk
       THEN /\ consumeResult' = "nil"
            /\ deliveriesOpen' = TRUE
            /\ loopPc' = "range"
       ELSE /\ consumeResult' = "error"
            /\ UNCHANGED <<deliveriesOpen, loopPc,
                   callerCtx, handlerCtxs, brokerVars, setupVars, apiVars, lifeVars, requeueVars>>
    /\ UNCHANGED <<deliveries, running, blocked, dispatched, outcome, acked, nextTag,
                   callerCtx, handlerCtxs, brokerVars, setupVars, apiVars, lifeVars, requeueVars>>

ConsumeWithOptions ==
    \E optAutoAck \in BOOLEAN, consumeOk \in BOOLEAN :
        ConsumeWithOptionsCall(optAutoAck, consumeOk)

\* Lines 228-232.
Consume == \E consumeOk \in BOOLEAN : ConsumeWithOptionsCall(FALSE, consumeOk)

\* The broker pushes a delivery on the stream.
BrokerDeliver ==
    /\ deliveriesOpen
    /\ nextTag <= MaxDeliveries
    /\ deliveries' = Append(deliveries, Delivery(nextTag))
    /\ nextTag' = nextTag + 1
    /\ UNCHANGED <<consumeResult, autoAck, deliveriesOpen, loopPc, running, blocked,
                   dispatched, outcome, acked,
                   callerCtx, handlerCtxs, brokerVars, setupVars, apiVars, lifeVars, requeueVars>>

\* The delivery stream closes: channel or connection closed, queue deleted.
StreamClose ==
    /\ deliveriesOpen
    /\ deliveriesOpen' = FALSE
    /\ UNCHANGED <<consumeResult, autoAck, deliveries, loopPc, running, blocked,
                   dispatched, outcome, acked, nextTag,
                   callerCtx, handlerCtxs, brokerVars, setupVars, apiVars, lifeVars, requeueVars>>

\* Where the goroutine is while a handler runs: the handler is called inline at
\* line 327, so the goroutine is inside it. (Variant: each delivery handled by a
\* task of its own, the goroutine back at the range.)
HandlerCallSpawned == "range"

HandlerCall == "handler"

\* Lines 323-327: the handler's context comes from the span started on
\* context.Background(): it has no tie to the ctx of the ConsumeWithOptions call.
HandlerContextOfCaller(ctx) == [parent |-> "caller", done |-> ctx = "cancelled"]

HandlerContext(ctx) == [parent |-> "background", done |-> FALSE]

\* Lines 276-327: the range reads the next delivery and the goroutine itself calls
\* the handler with it. The handler is the caller's: it may never return.
LoopReceive ==
    /\ loopPc = "range"
    /\ deliveries # <<>>
    /\ \E blocks \in BOOLEAN :
          LET d == Head(deliveries) IN
          /\ deliveries' = Tail(deliveries)
          /\ running' = running \cup {d}
          /\ blocked' = IF blocks THEN blocked \cup {d.tag} ELSE blocked
          /\ dispatched' = Append(dispatched, d.tag)
          /\ handlerCtxs' = Append(handlerCtxs, [ctx |-> HandlerContext(callerCtx),
                                                 caller |-> callerCtx])
          /\ loopPc' = HandlerCall
    /\ UNCHANGED <<consumeResult, autoAck, deliveriesOpen, outcome, acked, nextTag,
                   callerCtx, brokerVars, setupVars, apiVars, lifeVars, requeueVars>>

\* Lines 327-356: the handler returns (nil or an error), the delivery is acked or
\* nacked unless auto-ack, and the loop goes back to the range.
HandlerReturn ==
    \E d \in running, herr \in BOOLEAN, failed \in BOOLEAN :
        /\ d.tag \notin blocked
        /\ autoAck => ~failed
        /\ outcome' = [outcome EXCEPT ![d.tag] = IF herr THEN "err" ELSE "ok"]
        /\ acked' = Acknowledge(d, herr, failed)
        /\ running' = running \ {d}
        /\ loopPc' = AfterDelivery(herr, failed)
        /\ UNCHANGED <<consumeResult, autoAck, deliveries, deliveriesOpen, blocked,
                       dispatched, nextTag,
                   callerCtx, handlerCtxs, brokerVars, setupVars, apiVars, lifeVars, requeueVars>>

\* Lines 276, 357: what the goroutine does once the range has ended: the function
\* literal returns, and nothing calls channel.Consume again. (Variant: the
\* goroutine subscribes again and goes back to the range.)
AfterStreamClosedResubscribing == [pc |-> "range", open |-> TRUE]

AfterStreamClosed == [pc |-> "exited", open |-> FALSE]

\* Line 276: the range ends when the stream is closed and drained.
LoopExit ==
    /\ loopPc = "range"
    /\ deliveries = <<>>
    /\ ~deliveriesOpen
    /\ loopPc' = AfterStreamClosed.pc
    /\ deliveriesOpen' = AfterStreamClosed.open
    /\ UNCHANGED <<consumeResult, autoAck, deliveries, running, blocked,
                   dispatched, outcome, acked, nextTag,
                   callerCtx, handlerCtxs, brokerVars, setupVars, apiVars, lifeVars, requeueVars>>

ConsumerNext ==
    \/ ConsumeWithOptions
    \/ Consume
    \/ BrokerDeliver
    \/ StreamClose
    \/ LoopReceive
    \/ HandlerReturn
    \/ LoopExit

\* The caller cancels the ctx it passed to Consume / ConsumeWithOptions. Line 236
\* is the only use of that ctx: it parents the "consume" span, which ends when the
\* call returns.
CancelContext ==
    /\ callerCtx = "live"
    /\ callerCtx' = "cancelled"
    /\ UNCHANGED <<consumeResult, autoAck, deliveries, deliveriesOpen, loopPc, running,
                   blocked, dispatched, outcome, acked, nextTag, handlerCtxs,
                   brokerVars, setupVars, apiVars, lifeVars, requeueVars>>

CancellableConsumerNext == ConsumerNext \/ CancelContext

\* ====================================================================
\* Broker, as reached through r.channel
\* ====================================================================

QueueName == "orders"
DLXName == "orders-dlx"
DLQName == "orders-dlq"

\* amqp.Table(nil)
NilTable == <<>>

\* Lines 698-700: the argument table of the retrofitted queue.
DLXArgsNoRoutingKey(dlxName, dlqName) == ("x-dead-letter-exchange" :> dlxName)

DLXArgs(dlxName, dlqName) ==
    ("x-dead-letter-exchange" :> dlxName) @@ ("x-dead-letter-routing-key" :> dlqName)

\* Some other argument table a queue may have been declared with.
TTLArgs == ("x-message-ttl" :> "60000")

QueueAttrs(q) ==
    [durable |-> q.durable, autoDelete |-> q.autoDelete, exclusive |-> q.exclusive,
     args |-> q.args]

\* What one call on r.channel can come to. A call on a closed channel returns an
\* error. A call the broker accepts is applied and returns nil. The broker may
\* reject any call (a conflict with what exists, a missing entity, access refused,
\* a lost connection): a synchronous call then returns the error and the channel
\* may be closed by it; a no-wait call has already returned nil and the rejection
\* shows only as the channel being closed.
CallOutcomes(accepts, noWait) ==
    IF ~channelOpen
    THEN {[applied |-> FALSE, err |-> TRUE, open |-> FALSE]}
    ELSE (IF accepts THEN {[applied |-> TRUE, err |-> FALSE, open |-> TRUE]} ELSE {})
         \cup (IF noWait
               THEN {[applied |-> FALSE, err |-> FALSE, open |-> FALSE]}
               ELSE {[applied |-> FALSE, err |-> TRUE, open |-> c] : c \in BOOLEAN})

\* Redeclaring with identical attributes is a no-op, with other attributes an error.
ExchangeDeclareAccepts(name, attrs) ==
    name \in DOMAIN exchanges => exchanges[name] = attrs

QueueDeclareAccepts(name, attrs) ==
    name \in DOMAIN queues => QueueAttrs(queues[name]) = attrs

QueueBindAccepts(queue, exchange) ==
    queue \in DOMAIN queues /\ exchange \in DOMAIN exchanges

QueueDeclarePassiveAccepts(name) == name \in DOMAIN queues

ExchangesAfterDeclare(name, attrs) ==
    IF name \in DOMAIN exchanges THEN exchanges ELSE (name :> attrs) @@ exchanges

QueuesAfterDeclare(name, attrs) ==
    IF name \in DOMAIN queues
    THEN queues
    ELSE (name :> [durable |-> attrs.durable, autoDelete |-> attrs.autoDelete,
                   exclusive |-> attrs.exclusive, args |-> attrs.args,
                   messages |-> 0]) @@ queues

\* Deleting a queue removes it, its messages and its bindings.
QueuesAfterDelete(name) == [n \in DOMAIN queues \ {name} |-> queues[n]]

BindingsAfterDelete(name) == {b \in bindings : b.queue # name}

Call(site, op, name, attrs, noWait, o) ==
    [site |-> site, op |-> op, name |-> name, attrs |-> attrs, noWait |-> noWait,
     err |-> o.err]

\* The broker before the client's first call: the source queue, the DLX and the
\* DLQ each exist or not, declared some way by whoever declared them.
QueueStates ==
    [durable : BOOLEAN, autoDelete : {FALSE}, exclusive : {FALSE},
     args : {NilTable, TTLArgs, DLXArgs(DLXName, DLQName)},
     messages : 0..MaxQueueMessages]

ExchangeStates ==
    [kind : {"direct", "fanout"}, durable : BOOLEAN, autoDelete : {FALSE},
     internal : {FALSE}]

DLQStates ==
    [durable : BOOLEAN, autoDelete : BOOLEAN, exclusive : {FALSE}, args : {NilTable},
     messages : {0}]

BrokerInit ==
    /\ channelOpen = TRUE
    /\ \E xs \in SUBSET {DLXName}, x \in ExchangeStates :
          exchanges = [n \in xs |-> x]
    /\ \E src \in SUBSET {QueueName}, q \in QueueStates,
          dls \in SUBSET {DLQName}, dq \in DLQStates :
          queues = [n \in src \cup dls |-> IF n = QueueName THEN q ELSE dq]
    /\ bindings = {}
    /\ calls = <<>>

\* ====================================================================
\* SetupDLXForQueue
\* ====================================================================

\* models.DLXOptions (Args left nil).
DLXOptionsSet ==
    [Kind : {"", "fanout"}, Durable : BOOLEAN, AutoDelete : BOOLEAN, Internal : BOOLEAN,
     NoWait : BOOLEAN]

NoSetupArgs ==
    [queueName |-> "", dlxName |-> "", dlqName |-> "",
     options |-> [Kind |-> "", Durable |-> FALSE, AutoDelete |-> FALSE,
                  Internal |-> FALSE, NoWait |-> FALSE]]

SetupInit ==
    /\ setupPc = "idle"
    /\ setupArgs = NoSetupArgs
    /\ queueExists = FALSE
    /\ setupResult = "none"

\* Lines 577-581: the exchange kind defaults to direct.
DLXKind(options) == IF options.Kind = "" THEN "direct" ELSE options.Kind

\* Lines 583-591: the attributes DeclareDLX declares the exchange with.
DLXAttrs(options) ==
    [kind |-> DLXKind(options), durable |-> options.Durable,
     autoDelete |-> options.AutoDelete, internal |-> options.Internal]

\* Lines 684-689: the DLQ options built from the caller's DLX options.
DLQOptionsOfCopied(options) ==
    [Durable |-> options.Durable, AutoDelete |-> options.AutoDelete, Exclusive |-> FALSE,
     NoWait |-> options.NoWait]

DLQOptionsOf(options) ==
    [Durable |-> options.Durable, AutoDelete |-> FALSE, Exclusive |-> FALSE,
     NoWait |-> options.NoWait]

\* Lines 623-630: the attributes DeclareDLQ declares the queue with.
DLQAttrs(dlqOptions) ==
    [durable |-> dlqOptions.Durable, autoDelete |-> dlqOptions.AutoDelete,
     exclusive |-> dlqOptions.Exclusive, args |-> NilTable]

\* Lines 641-647: the binding DeclareDLQ makes, with the DLQ name as routing key.
DLQBindingOwnKey(dlqName, dlxName) == [queue |-> dlqName, key |-> "", exchange |-> dlxName]

DLQBinding(dlqName, dlxName) == [queue |-> dlqName, key |-> dlqName, exchange |-> dlxName]

\* Lines 712-719 and 742-749: the attributes of the retrofitted queue.
SourceQueueAttrs(a) ==
    [durable |-> a.options.Durable, autoDelete |-> FALSE, exclusive |-> FALSE,
     args |-> DLXArgs(a.dlxName, a.dlqName)]

\* Lines 679-681: step 1 failed or not.
AfterDeclareDLXIgnoringError(err) == [pc |-> "declareDLQ", result |-> "none"]

AfterDeclareDLX(err) ==
    IF err THEN [pc |-> "done", result |-> "failed to setup DLX"]
           ELSE [pc |-> "declareDLQ", result |-> "none"]

\* Lines 631-638 and 690-692: the DLQ declare failed or not.
AfterDeclareDLQ(err) ==
    IF err THEN [pc |-> "done", result |-> "failed to setup DLQ"]
           ELSE [pc |-> "bindDLQ", result |-> "none"]

\* Lines 648-655 and 690-692: the DLQ bind failed or not.
AfterBindDLQ(err) ==
    IF err THEN [pc |-> "done", result |-> "failed to setup DLQ"]
           ELSE [pc |-> "probe", result |-> "none"]

\* Lines 704-706 and 725: the branch taken on the probe's result.
AfterProbeAlwaysDelete(exists) == "delete"

AfterProbe(exists) == IF exists THEN "delete" ELSE "declareAbsent"

\* Lines 733-738: a failed delete is logged and the declare follows.
AfterDeleteReturningError(err) ==
    IF err THEN [pc |-> "done", result |-> "failed to delete queue"]
           ELSE [pc |-> "recreate", result |-> "none"]

AfterDelete(err) == [pc |-> "recreate", result |-> "none"]

\* Lines 720-724: the declare of the absent queue failed or not.
AfterDeclareAbsentSwallowed(err) == [pc |-> "done", result |-> "nil"]

AfterDeclareAbsent(err) ==
    IF err THEN [pc |-> "done", result |-> "failed to declare queue with DLX"]
           ELSE [pc |-> "done", result |-> "nil"]

\* Lines 750-757: the declare of the deleted queue failed or not.
AfterRecreate(err) ==
    IF err THEN [pc |-> "done", result |-> "failed to recreate queue with DLX"]
           ELSE [pc |-> "done", result |-> "nil"]

\* Lines 667-676: the call, with its parameters.
SetupDLXForQueue ==
    /\ setupPc = "idle"
    /\ \E options \in DLXOptionsSet :
          setupArgs' = [queueName |-> QueueName, dlxName |-> DLXName,
                        dlqName |-> DLQName, options |-> options]
    /\ setupPc' = "declareDLX"
    /\ UNCHANGED <<queueExists, setupResult, brokerVars, consumerVars, apiVars, lifeVars, requeueVars>>

\* Step 1, lines 678-681 with DeclareDLX, lines 566-608.
SetupDeclareDLX ==
    /\ setupPc = "declareDLX"
    /\ LET a == setupArgs
           attrs == DLXAttrs(a.options)
       IN \E o \in CallOutcomes(ExchangeDeclareAccepts(a.dlxName, attrs), a.options.NoWait) :
             /\ calls' = Append(calls, Call("declareDLX", "ExchangeDeclare", a.dlxName,
                                            attrs, a.options.NoWait, o))
             /\ exchanges' = IF o.applied THEN ExchangesAfterDeclare(a.dlxName, attrs)
                                          ELSE exchanges
             /\ channelOpen' = o.open
             /\ setupPc' = AfterDeclareDLX(o.err).pc
             /\ setupResult' = AfterDeclareDLX(o.err).result
    /\ UNCHANGED <<queues, bindings, setupArgs, queueExists, consumerVars, apiVars, lifeVars, requeueVars>>

\* Step 2, lines 683-692 with the declare of DeclareDLQ, lines 622-638.
SetupDeclareDLQ ==
    /\ setupPc = "declareDLQ"
    /\ LET a == setupArgs
           dlqOptions == DLQOptionsOf(a.options)
           attrs == DLQAttrs(dlqOptions)
       IN \E o \in CallOutcomes(QueueDeclareAccepts(a.dlqName, attrs), dlqOptions.NoWait) :
             /\ calls' = Append(calls, Call("declareDLQ", "QueueDeclare", a.dlqName,
                                            attrs, dlqOptions.NoWait, o))
             /\ queues' = IF o.applied THEN QueuesAfterDeclare(a.dlqName, attrs) ELSE queues
             /\ channelOpen' = o.open
             /\ setupPc' = AfterDeclareDLQ(o.err).pc
             /\ setupResult' = AfterDeclareDLQ(o.err).result
    /\ UNCHANGED <<exchanges, bindings, setupArgs, queueExists, consumerVars, apiVars, lifeVars, requeueVars>>

\* Step 2, the bind of DeclareDLQ, lines 640-655.
SetupBindDLQ ==
    /\ setupPc = "bindDLQ"
    /\ LET a == setupArgs
           dlqOptions == DLQOptionsOf(a.options)
           b == DLQBinding(a.dlqName, a.dlxName)
       IN \E o \in CallOutcomes(QueueBindAccepts(b.queue, b.exchange), dlqOptions.NoWait) :
             /\ calls' = Append(calls, Call("bindDLQ", "QueueBind", b.queue, b,
                                            dlqOptions.NoWait, o))
             /\ bindings' = IF o.applied THEN bindings \cup {b} ELSE bindings
             /\ channelOpen' = o.open
             /\ setupPc' = AfterBindDLQ(o.err).pc
             /\ setupResult' = AfterBindDLQ(o.err).result
    /\ UNCHANGED <<exchanges, queues, setupArgs, queueExists, consumerVars, apiVars, lifeVars, requeueVars>>

\* Step 3, lines 702-706: the passive declare of the source queue.
SetupProbe ==
    /\ setupPc = "probe"
    /\ LET a == setupArgs
       IN \E o \in CallOutcomes(QueueDeclarePassiveAccepts(a.queueName), FALSE) :
             /\ calls' = Append(calls, Call("probe", "QueueDeclarePassive", a.queueName,
                                            NilTable, FALSE, o))
             /\ channelOpen' = o.open
             /\ queueExists' = ~o.err
             /\ setupPc' = AfterProbe(~o.err)
    /\ UNCHANGED <<exchanges, queues, bindings, setupArgs, setupResult, consumerVars, apiVars, lifeVars, requeueVars>>

\* Step 3, lines 706-724: the queue is absent and is declared with the DLX arguments.
SetupDeclareAbsent ==
    /\ setupPc = "declareAbsent"
    /\ LET a == setupArgs
           attrs == SourceQueueAttrs(a)
       IN \E o \in CallOutcomes(QueueDeclareAccepts(a.queueName, attrs), FALSE) :
             /\ calls' = Append(calls, Call("declareAbsent", "QueueDeclare", a.queueName,
                                            attrs, FALSE, o))
             /\ queues' = IF o.applied THEN QueuesAfterDeclare(a.queueName, attrs) ELSE queues
             /\ channelOpen' = o.open
             /\ setupPc' = AfterDeclareAbsent(o.err).pc
             /\ setupResult' = AfterDeclareAbsent(o.err).result
    /\ UNCHANGED <<exchanges, bindings, setupArgs, queueExists, consumerVars, apiVars, lifeVars, requeueVars>>

\* Line 732: QueueDelete(queueName, false, false, false): ifUnused and ifEmpty are
\* both false. (Variant: a delete that spares a queue holding messages.)
QueueDeleteFlagsIfEmpty == [ifUnused |-> FALSE, ifEmpty |-> TRUE]

QueueDeleteFlags == [ifUnused |-> FALSE, ifEmpty |-> FALSE]

\* The messages waiting in a queue: those it held before the client's first call
\* and the deliveries routed to it since.
StoredIn(name) == SelectSeq(stored, LAMBDA d : d.queue = name)

MessagesIn(name) ==
    (IF name \in DOMAIN queues THEN queues[name].messages ELSE 0) + Len(StoredIn(name))

\* Deleting a queue drops the messages routed to it.
StoredAfterDelete(name) == SelectSeq(stored, LAMBDA d : d.queue # name)

\* The broker refuses an ifEmpty delete of a queue that holds messages.
QueueDeleteAccepts(name, flags) == flags.ifEmpty => MessagesIn(name) = 0

\* What a delete takes away, kept with the call: the number of messages (the
\* broker's reply, discarded at line 732), the queue as it was and its bindings.
Dropped(name, applied) ==
    [purged |-> IF applied THEN MessagesIn(name) ELSE 0,
     queue |-> IF applied /\ name \in DOMAIN queues THEN {QueueAttrs(queues[name])} ELSE {},
     bindings |-> IF applied THEN {b \in bindings : b.queue = name} ELSE {}]

\* Step 3, lines 725-738: the queue exists and is deleted (ifUnused and ifEmpty
\* false); a failure of the delete is logged only.
SetupDelete ==
    /\ setupPc = "delete"
    /\ LET a == setupArgs
       IN \E o \in CallOutcomes(QueueDeleteAccepts(a.queueName, QueueDeleteFlags), FALSE) :
             /\ calls' = Append(calls,
                                Call("delete", "QueueDelete", a.queueName,
                                     QueueDeleteFlags @@ Dropped(a.queueName, o.applied),
                                     FALSE, o))
             /\ queues' = IF o.applied THEN QueuesAfterDelete(a.queueName) ELSE queues
             /\ bindings' = IF o.applied THEN BindingsAfterDelete(a.queueName) ELSE bindings
             /\ stored' = IF o.applied THEN StoredAfterDelete(a.queueName) ELSE stored
             /\ channelOpen' = o.open
             /\ setupPc' = AfterDelete(o.err).pc
             /\ setupResult' = AfterDelete(o.err).result
    /\ UNCHANGED <<exchanges, setupArgs, queueExists, ops, received, consumerVars,
                   lifeVars, requeueVars>>

\* Step 3, lines 740-757: the queue is declared again, with the DLX arguments.
SetupRecreate ==
    /\ setupPc = "recreate"
    /\ LET a == setupArgs
           attrs == SourceQueueAttrs(a)
       IN \E o \in CallOutcomes(QueueDeclareAccepts(a.queueName, attrs), FALSE) :
             /\ calls' = Append(calls, Call("recreate", "QueueDeclare", a.queueName,
                                            attrs, FALSE, o))
             /\ queues' = IF o.applied THEN QueuesAfterDeclare(a.queueName, attrs) ELSE queues
             /\ channelOpen' = o.open
             /\ setupPc' = AfterRecreate(o.err).pc
             /\ setupResult' = AfterRecreate(o.err).result
    /\ UNCHANGED <<exchanges, bindings, setupArgs, queueExists, consumerVars, apiVars, lifeVars, requeueVars>>

TopologyNext ==
    \/ SetupDLXForQueue
    \/ SetupDeclareDLX
    \/ SetupDeclareDLQ
    \/ SetupBindDLQ
    \/ SetupProbe
    \/ SetupDeclareAbsent
    \/ SetupDelete
    \/ SetupRecreate

\* ====================================================================
\* DeclareQueueWithDLX, DeclareDLQ
\* ====================================================================

\* A call on a channel whose state is `open` (CallOutcomes, for the second call of
\* an operation that makes two).
CallOutcomesOn(open, accepts, noWait) ==
    IF ~open
    THEN {[applied |-> FALSE, err |-> TRUE, open |-> FALSE]}
    ELSE (IF accepts THEN {[applied |-> TRUE, err |-> FALSE, open |-> TRUE]} ELSE {})
         \cup (IF noWait
               THEN {[applied |-> FALSE, err |-> FALSE, open |-> FALSE]}
               ELSE {[applied |-> FALSE, err |-> TRUE, open |-> c] : c \in BOOLEAN})

\* args[k] = v on an amqp.Table.
SetArg(args, k, v) == [x \in DOMAIN args \cup {k} |-> IF x = k THEN v ELSE args[x]]

\* The argument tables a caller may pass as AdditionalArgs: none, a key of its
\* own, or a key the options also write, with another value.
AdditionalArgsSet ==
    {NilTable,
     ("x-queue-mode" :> "lazy"),
     ("x-dead-letter-exchange" :> "other-dlx"),
     ("x-dead-letter-routing-key" :> "other-key"),
     ("x-message-ttl" :> 1),
     ("x-max-length" :> 1),
     ("x-max-priority" :> 1),
     ("x-max-retries" :> 1)}

\* models.QueueOptions.
QueueOptionsSet ==
    [Durable : BOOLEAN, AutoDelete : {FALSE}, Exclusive : {FALSE}, NoWait : BOOLEAN,
     DLXName : {"", DLXName}, DLXRoutingKey : {"", DLQName},
     MaxRetries : {0, 3}, MessageTTL : {-1, 0, 60000}, MaxLength : {0, 1000},
     MaxPriority : {0, 10}, AdditionalArgs : AdditionalArgsSet]

\* Lines 502-505: the dead-letter routing key defaults to the queue's own name.
DLXRoutingKeyOfNoDefault(queue, options) == options.DLXRoutingKey

DLXRoutingKeyOf(queue, options) ==
    IF options.DLXRoutingKey = "" THEN queue ELSE options.DLXRoutingKey

\* Lines 499-511: the dead-letter arguments, when a DLX name is given.
WithDeadLetterArgs(args, queue, options) ==
    IF options.DLXName # ""
    THEN SetArg(SetArg(args, "x-dead-letter-exchange", options.DLXName),
                "x-dead-letter-routing-key", DLXRoutingKeyOf(queue, options))
    ELSE args

\* Lines 513-517.
WithMessageTTL(args, options) ==
    IF options.MessageTTL > 0 THEN SetArg(args, "x-message-ttl", options.MessageTTL)
                              ELSE args

\* Lines 519-523.
WithMaxLength(args, options) ==
    IF options.MaxLength > 0 THEN SetArg(args, "x-max-length", options.MaxLength)
                             ELSE args

\* Lines 525-529.
WithMaxPriority(args, options) ==
    IF options.MaxPriority > 0 THEN SetArg(args, "x-max-priority", options.MaxPriority)
                               ELSE args

\* Lines 531-537: the marker is written only where the table has none yet.
WithMaxRetriesOverwriting(args, options) ==
    IF options.MaxRetries > 0 THEN SetArg(args, "x-max-retries", options.MaxRetries)
                              ELSE args

WithMaxRetries(args, options) ==
    IF options.MaxRetries > 0 /\ "x-max-retries" \notin DOMAIN args
    THEN SetArg(args, "x-max-retries", options.MaxRetries)
    ELSE args

\* Lines 491-537: the argument table, AdditionalArgs first and the options after.
QueueArgsOf(queue, options) ==
    WithMaxRetries(
        WithMaxPriority(
            WithMaxLength(
                WithMessageTTL(
                    WithDeadLetterArgs(options.AdditionalArgs, queue, options),
                    options),
                options),
            options),
        options)

\* Lines 539-546: the attributes the queue is declared with.
QueueWithDLXAttrs(queue, options) ==
    [durable |-> options.Durable, autoDelete |-> options.AutoDelete,
     exclusive |-> options.Exclusive, args |-> QueueArgsOf(queue, options)]

OpsOf(op) == {i \in 1..Len(ops) : ops[i].op = op}

\* Lines 480-563.
DeclareQueueWithDLX ==
    /\ OpsOf("DeclareQueueWithDLX") = {}
    /\ \E options \in QueueOptionsSet :
          LET attrs == QueueWithDLXAttrs(QueueName, options) IN
          \E o \in CallOutcomes(QueueDeclareAccepts(QueueName, attrs), options.NoWait) :
             /\ calls' = Append(calls, Call("declareQueueWithDLX", "QueueDeclare",
                                            QueueName, attrs, options.NoWait, o))
             /\ queues' = IF o.applied THEN QueuesAfterDeclare(QueueName, attrs) ELSE queues
             /\ channelOpen' = o.open
             /\ ops' = Append(ops, [op |-> "DeclareQueueWithDLX", queue |-> QueueName,
                                    options |-> options,
                                    result |-> IF o.err
                                               THEN "failed to declare queue with DLX"
                                               ELSE "nil"])
    /\ UNCHANGED <<exchanges, bindings, stored, received, consumerVars, setupVars, lifeVars, requeueVars>>

\* models.DLQOptions (Args left nil).
DLQOptionsSet ==
    [Durable : BOOLEAN, AutoDelete : {FALSE}, Exclusive : {FALSE}, NoWait : BOOLEAN]

\* Lines 611-664: the queue is declared, then bound to the DLX with its own name
\* as routing key; the first failing call ends the operation.
DeclareDLQ ==
    /\ OpsOf("DeclareDLQ") = {}
    /\ \E options \in DLQOptionsSet :
          LET attrs == DLQAttrs(options)
              b == DLQBinding(DLQName, DLXName)
          IN
          \E o1 \in CallOutcomes(QueueDeclareAccepts(DLQName, attrs), options.NoWait) :
             LET queues1 == IF o1.applied THEN QueuesAfterDeclare(DLQName, attrs)
                                          ELSE queues
                 call1 == Call("declareDLQ", "QueueDeclare", DLQName, attrs,
                               options.NoWait, o1)
             IN
             IF o1.err
             THEN /\ calls' = Append(calls, call1)
                  /\ queues' = queues1
                  /\ channelOpen' = o1.open
                  /\ ops' = Append(ops, [op |-> "DeclareDLQ", queue |-> DLQName,
                                         dlxName |-> DLXName, options |-> options,
                                         result |-> "failed to declare DLQ"])
                  /\ UNCHANGED bindings
             ELSE \E o2 \in CallOutcomesOn(o1.open,
                                          b.queue \in DOMAIN queues1
                                            /\ b.exchange \in DOMAIN exchanges,
                                          options.NoWait) :
                     /\ calls' = calls \o <<call1, Call("bindDLQ", "QueueBind", b.queue, b,
                                                         options.NoWait, o2)>>
                     /\ queues' = queues1
                     /\ bindings' = IF o2.applied THEN bindings \cup {b} ELSE bindings
                     /\ channelOpen' = o2.open
                     /\ ops' = Append(ops, [op |-> "DeclareDLQ", queue |-> DLQName,
                                            dlxName |-> DLXName, options |-> options,
                                            result |-> IF o2.err
                                                       THEN "failed to bind DLQ to DLX"
                                                       ELSE "nil"])
    /\ UNCHANGED <<exchanges, stored, received, consumerVars, setupVars, lifeVars, requeueVars>>

DeclareNext ==
    \/ DeclareQueueWithDLX
    \/ DeclareDLQ

\* ====================================================================
\* NewRabbitMQClient, Close
\* ====================================================================

\* How many times the constructor is tried, and how many times Close is called.
MaxDials == 2
MaxCloses == 2

\* A call on the connection or the channel that is not a broker method on a
\* resource of the topology.
LifeCall(site, op, err) == Call(site, op, "", NilTable, FALSE, [err |-> err])

\* Lines 72-76: the channel could not be opened; the connection is closed (the
\* result of that close is dropped) and no client is returned.
ChannelFailureLeaking(closeErr) == [conn |-> "open", closes |-> <<>>]

ChannelFailure(closeErr) ==
    [conn |-> "closed",
     closes |-> <<LifeCall("newClientCloseConn", "Connection.Close", closeErr)>>]

\* Lines 59-88.
NewRabbitMQClient ==
    /\ client = "none"
    /\ Cardinality(OpsOf("NewRabbitMQClient")) < MaxDials
    /\ \E dialOk \in BOOLEAN, channelOk \in BOOLEAN, closeErr \in BOOLEAN :
          IF ~dialOk
          THEN /\ ops' = Append(ops, [op |-> "NewRabbitMQClient",
                                      result |-> "failed to connect to RabbitMQ"])
               /\ UNCHANGED <<client, conn, channelOpen, calls>>
          ELSE IF ~channelOk
          THEN /\ conn' = ChannelFailure(closeErr).conn
               /\ calls' = calls \o ChannelFailure(closeErr).closes
               /\ ops' = Append(ops, [op |-> "NewRabbitMQClient",
                                      result |-> "failed to open channel"])
               /\ UNCHANGED <<client, channelOpen>>
          ELSE /\ closeErr = FALSE
               /\ conn' = "open"
               /\ channelOpen' = TRUE
               /\ client' = "ready"
               /\ ops' = Append(ops, [op |-> "NewRabbitMQClient", result |-> "nil"])
               /\ UNCHANGED calls
    /\ UNCHANGED <<exchanges, queues, bindings, stored, received, closePc, closeErrs,
                   closeResults, consumerVars, setupVars, requeueVars>>

\* The connection drops by itself, and its channel with it.
ConnectionLost ==
    /\ client = "ready"
    /\ conn = "open"
    /\ conn' = "closed"
    /\ channelOpen' = FALSE
    /\ UNCHANGED <<client, closePc, closeErrs, closeResults, exchanges, queues, bindings,
                   calls, apiVars, consumerVars, setupVars, requeueVars>>

\* The channel dies by itself (a channel-level error), the connection stays.
ChannelLost ==
    /\ client = "ready"
    /\ channelOpen
    /\ channelOpen' = FALSE
    /\ UNCHANGED <<client, conn, closePc, closeErrs, closeResults, exchanges, queues,
                   bindings, calls, apiVars, consumerVars, setupVars, requeueVars>>

\* Lines 774 and 785: the fields are set by the constructor and never cleared.
ChannelNotNilWhileOpen == client = "ready" /\ channelOpen

ChannelNotNil == client = "ready"

ConnNotNil == client = "ready"

\* What a close of the connection or the channel may report: an open one closes
\* cleanly or with an error, a closed one reports nothing or that it is closed.
CloseReports(open) == BOOLEAN

\* Lines 775-783: whatever the channel close reports, the connection is next.
AfterChannelCloseShortCircuit(err) == IF err THEN "return" ELSE "conn"

AfterChannelClose(err) == "conn"

\* Line 771.
CloseStart ==
    /\ client = "ready"
    /\ closePc = "idle"
    /\ Len(closeResults) < MaxCloses
    /\ closePc' = "channel"
    /\ closeErrs' = <<>>
    /\ UNCHANGED <<client, conn, closeResults, brokerVars, apiVars, consumerVars, setupVars, requeueVars>>

\* Lines 774-783.
CloseChannel ==
    /\ closePc = "channel"
    /\ IF ChannelNotNil
       THEN \E err \in CloseReports(channelOpen) :
               /\ calls' = Append(calls, LifeCall("closeChannel", "Channel.Close", err))
               /\ channelOpen' = FALSE
               /\ closeErrs' = IF err THEN Append(closeErrs, "failed to close channel")
                                      ELSE closeErrs
               /\ closePc' = AfterChannelClose(err)
       ELSE /\ closePc' = "conn"
            /\ UNCHANGED <<calls, channelOpen, closeErrs>>
    /\ UNCHANGED <<client, conn, closeResults, exchanges, queues, bindings, apiVars,
                   consumerVars, setupVars, requeueVars>>

\* Lines 785-794.
CloseConnection ==
    /\ closePc = "conn"
    /\ IF ConnNotNil
       THEN \E err \in CloseReports(conn = "open") :
               /\ calls' = Append(calls, LifeCall("closeConn", "Connection.Close", err))
               /\ conn' = "closed"
               /\ channelOpen' = FALSE
               /\ closeErrs' = IF err THEN Append(closeErrs, "failed to close connection")
                                      ELSE closeErrs
       ELSE UNCHANGED <<calls, conn, channelOpen, closeErrs>>
    /\ closePc' = "return"
    /\ UNCHANGED <<client, closeResults, exchanges, queues, bindings, apiVars,
                   consumerVars, setupVars, requeueVars>>

\* Lines 796-799: nil, or one error made of everything collected.
CloseReturn ==
    /\ closePc = "return"
    /\ closeResults' = Append(closeResults, closeErrs)
    /\ closePc' = "idle"
    /\ UNCHANGED <<client, conn, closeErrs, brokerVars, apiVars, consumerVars, setupVars, requeueVars>>

LifecycleNext ==
    \/ NewRabbitMQClient
    \/ ConnectionLost
    \/ ChannelLost
    \/ CloseStart
    \/ CloseChannel
    \/ CloseConnection
    \/ CloseReturn

\* ====================================================================
\* encoding/json, as PublishWithOptions and a consumer use it
\* ====================================================================

\* A text is a sequence of characters; a value is [kind, val]: null, a bool, an
\* integer, a string (its characters) or an object (its <<key, value>> pairs in
\* order).  "chan" and "nan" are Go values json.Marshal has no encoding for.
JNull == [kind |-> "null", val |-> <<>>]
JBool(b) == [kind |-> "bool", val |-> b]
JNumber(n) == [kind |-> "number", val |-> n]
JString(chars) == [kind |-> "string", val |-> chars]
JObject(pairs) == [kind |-> "object", val |-> pairs]
JInvalid == [kind |-> "invalid", val |-> <<>>]

DigitChars == <<"0", "1", "2", "3", "4", "5", "6", "7", "8", "9">>

DigitValue(c) == CHOOSE d \in 0..9 : DigitChars[d + 1] = c

IsDigit(c) == \E d \in 0..9 : DigitChars[d + 1] = c

RECURSIVE NatText(_)
NatText(n) ==
    IF n < 10 THEN <<DigitChars[n + 1]>>
              ELSE NatText(n \div 10) \o <<DigitChars[(n % 10) + 1]>>

NumberText(n) == IF n < 0 THEN <<"-">> \o NatText(-n) ELSE NatText(n)

\* A character inside a JSON string: the quote and the backslash are escaped.
EscapeCharRaw(c) == <<c>>

EscapeChar(c) == IF c \in {"\"", "\\"} THEN <<"\\", c>> ELSE <<c>>

RECURSIVE EscapeChars(_)
EscapeChars(chars) ==
    IF chars = <<>> THEN <<>> ELSE EscapeChar(Head(chars)) \o EscapeChars(Tail(chars))

StringText(chars) == <<"\"">> \o EscapeChars(chars) \o <<"\"">>

\* json.Marshal fails on a value that has, anywhere in it, no JSON encoding.
RECURSIVE MarshalFails(_)
MarshalFails(v) ==
    CASE v.kind \in {"chan", "nan"} -> TRUE
      [] v.kind = "object" -> \E i \in 1..Len(v.val) : MarshalFails(v.val[i][2])
      [] OTHER -> FALSE

RECURSIVE MarshalText(_)
RECURSIVE PairsText(_)
PairsText(pairs) ==
    IF pairs = <<>> THEN <<>>
    ELSE StringText(pairs[1][1]) \o <<":">> \o MarshalText(pairs[1][2])
         \o (IF Len(pairs) > 1 THEN <<",">> \o PairsText(Tail(pairs)) ELSE <<>>)

MarshalText(v) ==
    CASE v.kind = "null" -> <<"n", "u", "l", "l">>
      [] v.kind = "bool" -> IF v.val THEN <<"t", "r", "u", "e">>
                                     ELSE <<"f", "a", "l", "s", "e">>
      [] v.kind = "number" -> NumberText(v.val)
      [] v.kind = "string" -> StringText(v.val)
      [] v.kind = "object" -> <<"{">> \o PairsText(v.val) \o <<"}">>

\* json.Marshal: the text, or an error.
Marshal(v) ==
    IF MarshalFails(v) THEN [err |-> TRUE, text |-> <<>>]
                       ELSE [err |-> FALSE, text |-> MarshalText(v)]

\* The result of reading one value off the front of a text.
ParseFail == [ok |-> FALSE, val |-> JInvalid, rest |-> <<>>]
ParseOk(v, rest) == [ok |-> TRUE, val |-> v, rest |-> rest]

HasPrefix(t, prefix) == Len(t) >= Len(prefix) /\ SubSeq(t, 1, Len(prefix)) = prefix

Drop(t, n) == SubSeq(t, n + 1, Len(t))

\* The characters of a string, from after its opening quote to its closing one.
RECURSIVE ParseStringBody(_, _)
ParseStringBody(t, acc) ==
    IF t = <<>> THEN ParseFail
    ELSE IF Head(t) = "\"" THEN ParseOk(JString(acc), Tail(t))
    ELSE IF Head(t) = "\\"
         THEN IF Len(t) >= 2 /\ t[2] \in {"\"", "\\"}
              THEN ParseStringBody(Drop(t, 2), Append(acc, t[2]))
              ELSE ParseFail
    ELSE ParseStringBody(Tail(t), Append(acc, Head(t)))

RECURSIVE ParseDigits(_, _)
ParseDigits(t, n) ==
    IF t # <<>> /\ IsDigit(Head(t))
    THEN ParseDigits(Tail(t), 10 * n + DigitValue(Head(t)))
    ELSE [val |-> n, rest |-> t]

\* An integer: an optional sign, then digits with no leading zero.
ParseNumber(t) ==
    LET negative == t # <<>> /\ Head(t) = "-"
        digits == IF negative THEN Tail(t) ELSE t
        r == ParseDigits(digits, 0)
    IN
    IF digits = <<>> \/ ~IsDigit(Head(digits)) THEN ParseFail
    ELSE IF Head(digits) = "0" /\ Len(digits) - Len(r.rest) > 1 THEN ParseFail
    ELSE ParseOk(JNumber(IF negative THEN -r.val ELSE r.val), r.rest)

RECURSIVE ParseValue(_)
RECURSIVE ParsePairs(_, _)
\* The pairs of an object, from its first key to its closing brace.
ParsePairs(t, acc) ==
    IF t = <<>> \/ Head(t) # "\"" THEN ParseFail
    ELSE LET k == ParseStringBody(Tail(t), <<>>) IN
         IF ~k.ok \/ k.rest = <<>> \/ Head(k.rest) # ":" THEN ParseFail
         ELSE LET v == ParseValue(Tail(k.rest))
                  pairs == Append(acc, <<k.val.val, v.val>>)
              IN
              IF ~v.ok \/ v.rest = <<>> THEN ParseFail
              ELSE IF Head(v.rest) = "}" THEN ParseOk(JObject(pairs), Tail(v.rest))
              ELSE IF Head(v.rest) = "," THEN ParsePairs(Tail(v.rest), pairs)
              ELSE ParseFail

ParseValue(t) ==
    IF t = <<>> THEN ParseFail
    ELSE IF Head(t) = "\"" THEN ParseStringBody(Tail(t), <<>>)
    ELSE IF Head(t) = "-" \/ IsDigit(Head(t)) THEN ParseNumber(t)
    ELSE IF HasPrefix(t, <<"n", "u", "l", "l">>) THEN ParseOk(JNull, Drop(t, 4))
    ELSE IF HasPrefix(t, <<"t", "r", "u", "e">>) THEN ParseOk(JBool(TRUE), Drop(t, 4))
    ELSE IF HasPrefix(t, <<"f", "a", "l", "s", "e">>) THEN ParseOk(JBool(FALSE), Drop(t, 5))
    ELSE IF HasPrefix(t, <<"{", "}">>) THEN ParseOk(JObject(<<>>), Drop(t, 2))
    ELSE IF Head(t) = "{" THEN ParsePairs(Tail(t), <<>>)
    ELSE ParseFail

\* json.Unmarshal of a whole body: the value, or JInvalid when the body is not
\* one JSON value.
Parse(t) ==
    LET r == ParseValue(t) IN
    IF r.ok /\ r.rest = <<>> THEN r.val ELSE JInvalid

\* ====================================================================
\* Publish, PublishWithOptions, and the delivery of what was published
\* ====================================================================

EventsExchange == "events"
RoutingKey == "k"

\* A []byte payload.
Bytes(chars) == [kind |-> "bytes", val |-> chars]

\* The messages a caller publishes: byte slices, strings, and values of other
\* types, two of them with no JSON encoding.
MessageSet ==
    {Bytes(<<"{", "}">>), Bytes(<<"h", "i">>),
     JString(<<"h", "i">>), JString(<<"1">>),
     JNumber(7), JNumber(-42), JNull, JBool(TRUE),
     JObject(<< <<(<<"i", "d">>), JString(<<"1">>)>> >>),
     JObject(<< <<(<<"q">>), JString(<<"\"">>)>> >>),
     [kind |-> "chan", val |-> <<>>],
     JObject(<< <<(<<"f">>), [kind |-> "nan", val |-> <<>>]>> >>)}

\* models.PublishOptions; Priority, Expiration, Timestamp, Type, UserID and
\* AppID are copied to fields of their own (lines 180-197) and left out.
PublishOptionsSet ==
    [Mandatory : {FALSE}, Immediate : {FALSE}, ContentType : {"", "text/plain"},
     Headers : {NilTable,
                ("a" :> "1"),
                ("traceparent" :> "00-received"),
                ("x-message-id" :> "received-id")},
     MessageID : {"", "m-1"}]

\* models.PublishOptions{}.
NoPublishOptions ==
    [Mandatory |-> FALSE, Immediate |-> FALSE, ContentType |-> "", Headers |-> NilTable,
     MessageID |-> ""]

\* What r.propagator.Inject writes: nothing (no propagator registered, or no
\* valid span), or the trace context of the publish span.
InjectedSet == {NilTable, ("traceparent" :> "00-publish")}

\* Entries of `over` written onto `base`.
Merge(over, base) ==
    [k \in DOMAIN over \cup DOMAIN base |-> IF k \in DOMAIN over THEN over[k] ELSE base[k]]

\* Lines 112-130: the body, or the marshalling error.
SerializeMessage(message) ==
    CASE message.kind = "bytes" -> [err |-> FALSE, body |-> message.val]
      [] message.kind = "string" -> [err |-> FALSE, body |-> message.val]
      [] OTHER -> [err |-> Marshal(message).err, body |-> Marshal(message).text]

\* Lines 121-129: a marshalling error ends the call.
PublishProceedsAlways(ser) == TRUE

PublishProceeds(ser) == ~ser.err

\* Lines 132-136.
ContentTypeOf(options) ==
    IF options.ContentType = "" THEN "application/json" ELSE options.ContentType

\* Lines 151-154: maps.Copy of the caller's headers into the empty table.
WithUserHeadersDropped(headers, options) == headers

WithUserHeaders(headers, options) == Merge(options.Headers, headers)

\* Lines 156-159: the carrier's Set writes each injected key into the table.
WithInjected(headers, injected) == Merge(injected, headers)

\* Lines 161-168.
WithMessageIDFieldOnly(publishing, options) ==
    IF options.MessageID # ""
    THEN [publishing EXCEPT !.MessageId = options.MessageID]
    ELSE publishing

WithMessageID(publishing, options) ==
    IF options.MessageID # ""
    THEN [publishing EXCEPT !.MessageId = options.MessageID,
                            !.Headers = SetArg(@, "x-message-id", options.MessageID)]
    ELSE publishing

\* Lines 139-168: the amqp.Publishing handed to the channel.
PublishingOf(body, options, injected) ==
    WithMessageID(
        [ContentType |-> ContentTypeOf(options), Body |-> body,
         DeliveryMode |-> "persistent", MessageId |-> "",
         Headers |-> WithInjected(WithUserHeaders(NilTable, options), injected)],
        options)

\* basic.publish has no reply: the call returns an error only when the frame
\* cannot be sent; a rejection by the broker closes the channel afterwards.
PublishOutcomes(accepts) == CallOutcomes(accepts, TRUE) \cup CallOutcomes(accepts, FALSE)

\* The queues the broker routes a message to.
RoutedQueues(exchange, routingKey) ==
    {b.queue : b \in {x \in bindings :
                         /\ x.exchange = exchange
                         /\ x.queue \in DOMAIN queues
                         /\ exchanges[exchange].kind = "direct" => x.key = routingKey}}

RECURSIVE SeqOfSet(_)
SeqOfSet(S) ==
    IF S = {} THEN <<>> ELSE LET x == CHOOSE y \in S : TRUE IN <<x>> \o SeqOfSet(S \ {x})

\* The amqp.Delivery a consumer of the queue gets for a publishing.
DeliveryOf(queue, exchange, routingKey, publishing) ==
    [queue |-> queue, Exchange |-> exchange, RoutingKey |-> routingKey,
     Body |-> publishing.Body, Headers |-> publishing.Headers,
     MessageId |-> publishing.MessageId, ContentType |-> publishing.ContentType]

Routed(exchange, routingKey, publishing) ==
    LET qs == SeqOfSet(RoutedQueues(exchange, routingKey)) IN
    [i \in 1..Len(qs) |-> DeliveryOf(qs[i], exchange, routingKey, publishing)]

PublishOps == OpsOf("Publish") \cup OpsOf("PublishWithOptions")

\* Lines 102-225.
PublishWithOptionsCall(name, exchange, routingKey, message, options, injected) ==
    LET ser == SerializeMessage(message)
        publishing == PublishingOf(ser.body, options, injected)
        op == [op |-> name, exchange |-> exchange, routingKey |-> routingKey,
               message |-> message, options |-> options, injected |-> injected]
    IN
    /\ IF ~PublishProceeds(ser)
       THEN /\ ops' = Append(ops, op @@ [result |-> "failed to marshal message"])
            /\ UNCHANGED <<calls, stored, channelOpen>>
       ELSE \E o \in PublishOutcomes(exchange \in DOMAIN exchanges) :
               /\ calls' = Append(calls,
                                  Call("publish", "PublishWithContext", exchange,
                                       [key |-> routingKey,
                                        mandatory |-> options.Mandatory,
                                        immediate |-> options.Immediate,
                                        publishing |-> publishing],
                                       FALSE, o))
               /\ stored' = IF o.applied
                            THEN stored \o Routed(exchange, routingKey, publishing)
                            ELSE stored
               /\ channelOpen' = o.open
               /\ ops' = Append(ops, op @@ [result |-> IF o.err
                                                       THEN "failed to publish message"
                                                       ELSE "nil"])
    /\ UNCHANGED <<exchanges, queues, bindings, received, consumerVars, setupVars, lifeVars, requeueVars>>

\* One message is published, by one of the two operations. Lines 50-56: the
\* client has no mutex, and PublishWithOptions waits for no other operation.
\* (Variant: a publish that is held back while SetupDLXForQueue runs.)
CanPublishOutsideSetup ==
    client = "ready" /\ PublishOps = {} /\ setupPc \in {"idle", "done"}

CanPublish == client = "ready" /\ PublishOps = {}

PublishWithOptions ==
    /\ CanPublish
    /\ \E exchange \in {EventsExchange, "missing"}, routingKey \in {RoutingKey, "other"},
          message \in MessageSet, options \in PublishOptionsSet, injected \in InjectedSet :
          PublishWithOptionsCall("PublishWithOptions", exchange, routingKey, message,
                                 options, injected)

\* Lines 97-99.
Publish ==
    /\ CanPublish
    /\ \E exchange \in {EventsExchange, "missing"}, routingKey \in {RoutingKey, "other"},
          message \in MessageSet, injected \in InjectedSet :
          PublishWithOptionsCall("Publish", exchange, routingKey, message, NoPublishOptions,
                                 injected)

\* Lines 97-99: another goroutine of the program publishes one message to the
\* exchange the source queue is bound to, at any moment of SetupDLXForQueue.
PublishDuringSetup ==
    /\ CanPublish
    /\ PublishWithOptionsCall("Publish", EventsExchange, RoutingKey, JNumber(7),
                              NoPublishOptions, NilTable)

RetrofitNext == TopologyNext \/ PublishDuringSetup

\* Deliveries routed to the queue, waiting or handled, in TraceSpec.
MaxRouted == 2

\* The propagator the client was built with (line 86): the global one, which
\* does nothing unless the program registered the W3C trace-context propagator.
PropagatorSet == {"none", "tracecontext"}

\* A span context; the zero value is not valid.
NoSpanContext == [valid |-> FALSE, traceId |-> <<"none", "none">>, spanId |-> "none"]

\* models.AMQPCarrier.Get: the header's string, or "" without the header.
CarrierGet(headers, key) == IF key \in DOMAIN headers THEN headers[key] ELSE ""

\* The span context a traceparent value stands for; a value that is not a
\* well-formed traceparent stands for none.
TraceparentContext(value) ==
    IF value \in {"00-publish", "00-received"}
    THEN [valid |-> TRUE, traceId |-> <<"publisher", value>>, spanId |-> value]
    ELSE NoSpanContext

\* Lines 280-287: r.propagator.Extract on the carrier of the delivery's headers,
\* then the span context of the result.
ExtractSpanContext(propagator, headers) ==
    IF propagator = "tracecontext"
    THEN TraceparentContext(CarrierGet(headers, "traceparent"))
    ELSE NoSpanContext

\* Lines 298-302: the attributes of the link.
LinkAttributes(delivery) ==
    [message_id |-> delivery.MessageId, routing_key |-> delivery.RoutingKey,
     exchange |-> delivery.Exchange]

\* Lines 289-325: the span the handler runs under: started on
\* context.Background(), so a root with a trace ID of its own, with the
\* publisher's span context as a link when it is valid.
HandlerSpanAsChild(publisherSpanCtx, delivery) ==
    [traceId |-> IF publisherSpanCtx.valid THEN publisherSpanCtx.traceId
                                           ELSE <<"consumer", "new">>,
     parent |-> publisherSpanCtx,
     links |-> <<>>]

HandlerSpan(publisherSpanCtx, delivery) ==
    [traceId |-> <<"consumer", "new">>,
     parent |-> NoSpanContext,
     links |-> IF publisherSpanCtx.valid
               THEN <<[spanContext |-> publisherSpanCtx,
                       attributes |-> LinkAttributes(delivery)]>>
               ELSE <<>>]

\* Lines 275-327: the consumer's goroutine starts the span of the delivery and
\* hands the delivery to the handler as it came from the broker.
HandleDelivery ==
    /\ stored # <<>>
    /\ \E propagator \in PropagatorSet :
          LET delivery == Head(stored)
              publisherSpanCtx == ExtractSpanContext(propagator, delivery.Headers)
          IN received' = Append(received,
                                delivery @@
                                [propagator |-> propagator,
                                 span |-> HandlerSpan(publisherSpanCtx, delivery)])
    /\ stored' = Tail(stored)
    /\ UNCHANGED <<ops, brokerVars, consumerVars, setupVars, lifeVars, requeueVars>>

PublishNext ==
    \/ PublishWithOptions
    \/ Publish
    \/ HandleDelivery

\* A message of any publisher reaches the queue: with or without a traceparent
\* header, well-formed or not, with or without a message ID.
BrokerRoute ==
    /\ Len(stored) + Len(received) < MaxRouted
    /\ \E headers \in {NilTable, ("traceparent" :> "00-publish"),
                        ("traceparent" :> "garbage"), ("a" :> "1")},
          id \in {"", "m-1"} :
          stored' = Append(stored,
                           DeliveryOf(QueueName, EventsExchange, RoutingKey,
                                      [ContentType |-> "application/json",
                                       Body |-> <<"7">>, DeliveryMode |-> "persistent",
                                       MessageId |-> id, Headers |-> headers]))
    /\ UNCHANGED <<ops, received, brokerVars, consumerVars, setupVars, lifeVars,
                   requeueVars>>

TraceNext ==
    \/ BrokerRoute
    \/ HandleDelivery

\* ====================================================================
\* DeclareQueue, DeclareExchange, BindQueue
\* ====================================================================

\* The ctx a caller passes: cancelled before the call or not.  The operations
\* hand it to r.trace only (lines 364, 403, 444); the channel methods take none.
ContextStates == {"live", "cancelled"}

\* Lines 363-399.
DeclareQueue ==
    /\ client = "ready"
    /\ OpsOf("DeclareQueue") = {}
    /\ \E ctx \in ContextStates, durable \in BOOLEAN, noWait \in BOOLEAN,
          args \in {NilTable, TTLArgs} :
          LET attrs == [durable |-> durable, autoDelete |-> FALSE, exclusive |-> FALSE,
                        args |-> args]
          IN
          \E o \in CallOutcomes(QueueDeclareAccepts(QueueName, attrs), noWait) :
             /\ calls' = Append(calls, Call("declareQueue", "QueueDeclare", QueueName,
                                            attrs, noWait, o))
             /\ queues' = IF o.applied THEN QueuesAfterDeclare(QueueName, attrs) ELSE queues
             /\ channelOpen' = o.open
             /\ ops' = Append(ops, [op |-> "DeclareQueue", ctx |-> ctx, name |-> QueueName,
                                    result |-> IF o.err THEN "failed to declare queue"
                                                        ELSE "nil"])
    /\ UNCHANGED <<exchanges, bindings, stored, received, consumerVars, setupVars, lifeVars,
                   requeueVars>>

\* Lines 402-440.
DeclareExchange ==
    /\ client = "ready"
    /\ OpsOf("DeclareExchange") = {}
    /\ \E ctx \in ContextStates, kind \in {"direct", "fanout"}, durable \in BOOLEAN,
          noWait \in BOOLEAN :
          LET attrs == [kind |-> kind, durable |-> durable, autoDelete |-> FALSE,
                        internal |-> FALSE]
          IN
          \E o \in CallOutcomes(ExchangeDeclareAccepts(EventsExchange, attrs), noWait) :
             /\ calls' = Append(calls, Call("declareExchange", "ExchangeDeclare",
                                            EventsExchange, attrs, noWait, o))
             /\ exchanges' = IF o.applied THEN ExchangesAfterDeclare(EventsExchange, attrs)
                                          ELSE exchanges
             /\ channelOpen' = o.open
             /\ ops' = Append(ops, [op |-> "DeclareExchange", ctx |-> ctx,
                                    name |-> EventsExchange,
                                    result |-> IF o.err THEN "failed to declare exchange"
                                                        ELSE "nil"])
    /\ UNCHANGED <<queues, bindings, stored, received, consumerVars, setupVars, lifeVars,
                   requeueVars>>

\* Lines 443-477.
BindQueue ==
    /\ client = "ready"
    /\ OpsOf("BindQueue") = {}
    /\ \E ctx \in ContextStates, noWait \in BOOLEAN :
          LET b == [queue |-> QueueName, key |-> RoutingKey, exchange |-> EventsExchange]
          IN
          \E o \in CallOutcomes(QueueBindAccepts(b.queue, b.exchange), noWait) :
             /\ calls' = Append(calls, Call("bindQueue", "QueueBind", b.queue, b, noWait, o))
             /\ bindings' = IF o.applied THEN bindings \cup {b} ELSE bindings
             /\ channelOpen' = o.open
             /\ ops' = Append(ops, [op |-> "BindQueue", ctx |-> ctx, name |-> QueueName,
                                    result |-> IF o.err THEN "failed to bind queue"
                                                        ELSE "nil"])
    /\ UNCHANGED <<exchanges, queues, stored, received, consumerVars, setupVars, lifeVars,
                   requeueVars>>

BasicTopologyNext ==
    \/ DeclareQueue
    \/ DeclareExchange
    \/ BindQueue

\* ====================================================================
\* Redelivery of rejected messages
\* ====================================================================

\* Messages followed through their redeliveries.
MaxRequeueMessages == 2

\* Rejections counted for one message; further ones leave the count where it is.
MaxNacksCounted == 4

RequeueMessages == 1..MaxRequeueMessages

\* No acknowledgment call made yet for a message.
NoAcknowledgment == [kind |-> "none", multiple |-> FALSE, requeue |-> FALSE]

\* The queues a consumer may read from: declared by DeclareQueueWithDLX with a
\* dead-letter exchange and with or without a retry marker, the caller's or the
\* option's.
RequeueQueueOptionsSet ==
    {o \in QueueOptionsSet :
        /\ o.Durable /\ ~o.NoWait
        /\ o.DLXName = DLXName /\ o.DLXRoutingKey = DLQName
        /\ o.MessageTTL = 0 /\ o.MaxLength = 0 /\ o.MaxPriority = 0
        /\ o.AdditionalArgs \in {NilTable, ("x-max-retries" :> 1)}}

\* Line 337: the requeue flag of delivery.Nack(false, true) is the literal true;
\* neither the queue's arguments nor the delivery's redelivery history is read.
\* (Variant: a client that stops requeueing at the queue's x-max-retries.)
NackRequeueCapped(queueArgs, nacks) ==
    ~("x-max-retries" \in DOMAIN queueArgs /\ nacks + 1 >= queueArgs["x-max-retries"])

NackRequeue(queueArgs, nacks) == TRUE

\* What the broker does with a message rejected with the given requeue flag: back
\* to the queue, or out of it, through the dead-letter exchange if the queue has one.
AfterNack(queueArgs, requeue) ==
    IF requeue THEN "queued"
    ELSE IF "x-dead-letter-exchange" \in DOMAIN queueArgs THEN "deadLettered"
    ELSE "discarded"

\* A consumer in manual-ack mode on the queue, with messages waiting.
RequeueInit ==
    /\ consumeResult = "nil"
    /\ autoAck = FALSE
    /\ deliveries = <<>>
    /\ deliveriesOpen = TRUE
    /\ loopPc = "range"
    /\ running = {}
    /\ blocked = {}
    /\ dispatched = <<>>
    /\ outcome = [t \in Tags |-> "none"]
    /\ acked = <<>>
    /\ nextTag = 1
    /\ callerCtx = "live"
    /\ handlerCtxs = <<>>
    /\ requeued = [m \in RequeueMessages |->
                      [state |-> "queued", nacks |-> 0, redelivered |-> FALSE,
                       last |-> NoAcknowledgment]]

\* Lines 276-327: the broker delivers a message waiting in the queue, for the
\* first time or again, and the goroutine calls the handler with it.
RequeueDeliver ==
    /\ loopPc = "range"
    /\ deliveriesOpen
    /\ \E m \in RequeueMessages :
          /\ requeued[m].state = "queued"
          /\ requeued' = [requeued EXCEPT ![m].state = "handling",
                                          ![m].redelivered = requeued[m].nacks > 0]
    /\ loopPc' = HandlerCall
    /\ UNCHANGED <<consumeResult, autoAck, deliveries, deliveriesOpen, running, blocked,
                   dispatched, outcome, acked, nextTag, callerCtx, handlerCtxs,
                   brokerVars, setupVars, apiVars, lifeVars>>

\* Lines 327-353: the handler returns; on an error the delivery is rejected,
\* otherwise acknowledged, and the broker acts on the call.
RequeueHandlerReturn ==
    /\ loopPc = "handler"
    /\ ~autoAck
    /\ \E m \in RequeueMessages, herr \in BOOLEAN :
          LET args == queues[QueueName].args
              msg == requeued[m]
              requeue == NackRequeue(args, msg.nacks)
              nacks == IF msg.nacks < MaxNacksCounted THEN msg.nacks + 1 ELSE msg.nacks
          IN
          /\ msg.state = "handling"
          /\ requeued' =
                IF herr
                THEN [requeued EXCEPT ![m].state = AfterNack(args, requeue),
                                      ![m].nacks = nacks,
                                      ![m].last = [kind |-> "nack", multiple |-> FALSE,
                                                   requeue |-> requeue]]
                ELSE [requeued EXCEPT ![m].state = "acked",
                                      ![m].last = [kind |-> "ack", multiple |-> FALSE,
                                                   requeue |-> FALSE]]
          /\ loopPc' = AfterDelivery(herr, FALSE)
    /\ UNCHANGED <<consumeResult, autoAck, deliveries, deliveriesOpen, running, blocked,
                   dispatched, outcome, acked, nextTag, callerCtx, handlerCtxs,
                   brokerVars, setupVars, apiVars, lifeVars>>

RequeueNext == RequeueDeliver \/ RequeueHandlerReturn

\* ====================================================================
\* Specifications
\* ====================================================================

BrokerIdle ==
    /\ channelOpen = TRUE
    /\ exchanges = <<>>
    /\ queues = <<>>
    /\ bindings = {}
    /\ calls = <<>>

\* No single-call operation made yet, nothing routed, nothing received, no
\* message followed through its requeues.
ApiInit ==
    /\ ops = <<>>
    /\ stored = <<>>
    /\ received = <<>>
    /\ requeued = <<>>

\* The client as NewRabbitMQClient returned it, Close not called.
ClientReady ==
    /\ client = "ready"
    /\ conn = "open"
    /\ closePc = "idle"
    /\ closeErrs = <<>>
    /\ closeResults = <<>>

\* The consumer alone, on a channel nothing else uses.
ConsumerStart == ConsumerInit /\ BrokerIdle /\ SetupInit /\ ApiInit /\ ClientReady

ConsumerSpec == ConsumerStart /\ [][ConsumerNext]_vars

\* The consumer with a caller that may cancel its ctx, under the scheduling the Go
\* runtime gives the goroutine of line 275: a runnable goroutine runs, so the range
\* takes a delivery that is there, ends when the stream is closed and drained, and
\* a handler that does return is resumed. Nothing is assumed of the broker or of
\* the caller.
ConsumerLiveSpec ==
    /\ ConsumerStart
    /\ [][CancellableConsumerNext]_vars
    /\ WF_vars(LoopReceive)
    /\ WF_vars(HandlerReturn)
    /\ WF_vars(LoopExit)

\* After NewRabbitMQClient: nothing called yet, the broker in any state.
Init == ConsumerInit /\ BrokerInit /\ SetupInit /\ ApiInit /\ ClientReady

\* One SetupDLXForQueue call against a broker in any initial state.
TopologySpec == Init /\ [][TopologyNext]_vars

\* The broker with the dead-letter exchange declared or not, and no queue yet.
DeclareStart ==
    /\ ConsumerInit /\ SetupInit /\ ApiInit /\ ClientReady
    /\ channelOpen = TRUE
    /\ \E xs \in SUBSET {DLXName} :
          exchanges = [n \in xs |-> [kind |-> "direct", durable |-> TRUE,
                                     autoDelete |-> FALSE, internal |-> FALSE]]
    /\ queues = <<>>
    /\ bindings = {}
    /\ calls = <<>>

\* DeclareQueueWithDLX and DeclareDLQ, each called once, in either order.
DeclareSpec == DeclareStart /\ [][DeclareNext]_vars

\* Nothing constructed yet.
LifecycleStart ==
    /\ ConsumerInit /\ SetupInit /\ ApiInit
    /\ client = "none" /\ conn = "none" /\ channelOpen = FALSE
    /\ closePc = "idle" /\ closeErrs = <<>> /\ closeResults = <<>>
    /\ exchanges = <<>> /\ queues = <<>> /\ bindings = {} /\ calls = <<>>

\* The client from its construction to its closes.
LifecycleSpec == LifecycleStart /\ [][LifecycleNext]_vars

\* A direct exchange, and the queue bound to it with the routing key or not.
PublishStart ==
    /\ ConsumerInit /\ SetupInit /\ ApiInit /\ ClientReady
    /\ channelOpen = TRUE
    /\ exchanges = (EventsExchange :> [kind |-> "direct", durable |-> TRUE,
                                      autoDelete |-> FALSE, internal |-> FALSE])
    /\ queues = (QueueName :> [durable |-> TRUE, autoDelete |-> FALSE, exclusive |-> FALSE,
                               args |-> NilTable, messages |-> 0])
    /\ bindings \in SUBSET {[queue |-> QueueName, key |-> RoutingKey,
                             exchange |-> EventsExchange]}
    /\ calls = <<>>

\* One message published, routed and handed to the consumer's handler.
PublishSpec == PublishStart /\ [][PublishNext]_vars

\* A queue, an exchange and a binding, each declared once on an empty broker, in
\* any order, with a context that is cancelled or not.
BasicTopologyStart == ConsumerInit /\ BrokerIdle /\ SetupInit /\ ApiInit /\ ClientReady

BasicTopologySpec == BasicTopologyStart /\ [][BasicTopologyNext]_vars

\* Deliveries of other publishers' messages, handled by the consumer.
TraceStart == PublishStart

TraceSpec == TraceStart /\ [][TraceNext]_vars

\* A consumer in manual-ack mode on a queue declared by DeclareQueueWithDLX, and a
\* broker that redelivers what is requeued.
RequeueStart ==
    /\ RequeueInit /\ SetupInit /\ ClientReady
    /\ ops = <<>> /\ stored = <<>> /\ received = <<>>
    /\ channelOpen = TRUE
    /\ exchanges = (DLXName :> [kind |-> "direct", durable |-> TRUE,
                               autoDelete |-> FALSE, internal |-> FALSE])
    /\ \E options \in RequeueQueueOptionsSet :
          queues = (QueueName :> (QueueWithDLXAttrs(QueueName, options)
                                  @@ [messages |-> MaxRequeueMessages]))
    /\ bindings = {}
    /\ calls = <<>>

\* The goroutine runs when it can; the handler returns.
RequeueSpec ==
    /\ RequeueStart
    /\ [][RequeueNext]_vars
    /\ WF_vars(RequeueDeliver)
    /\ WF_vars(RequeueHandlerReturn)

\* The source queue exists, declared some way and holding messages or not, and is
\* bound to a direct exchange; no dead-letter exchange or queue yet.
RetrofitStart ==
    /\ ConsumerInit /\ SetupInit /\ ApiInit /\ ClientReady
    /\ channelOpen = TRUE
    /\ exchanges = (EventsExchange :> [kind |-> "direct", durable |-> TRUE,
                                      autoDelete |-> FALSE, internal |-> FALSE])
    /\ \E q \in QueueStates : queues = (QueueName :> q)
    /\ bindings = {[queue |-> QueueName, key |-> RoutingKey, exchange |-> EventsExchange]}
    /\ calls = <<>>

\* One SetupDLXForQueue call on the existing queue and one Publish, interleaved.
RetrofitSpec == RetrofitStart /\ [][RetrofitNext]_vars

Next ==
    \/ ConsumerNext \/ TopologyNext \/ DeclareNext \/ LifecycleNext \/ PublishNext
    \/ BasicTopologyNext \/ TraceNext \/ CancelContext \/ RequeueNext \/ RetrofitNext

Spec == Init /\ [][Next]_vars

\* ====================================================================
\* Properties of the consumer (of ConsumerSpec)
\* ====================================================================

\* The positions in acked of the calls of one kind made for the delivery with tag t.
AcksOf(t, kind) == {i \in 1..Len(acked) : acked[i].tag = t /\ acked[i].kind = kind}

\* The handler of t returned and, in manual-ack mode, its ack or nack was issued.
Completed(t) ==
    /\ outcome[t] # "none"
    /\ ~autoAck => AcksOf(t, "ack") \cup AcksOf(t, "nack") # {}

\* C1: in manual-ack mode a delivery whose handler returned an error gets exactly
\* one negative acknowledgment, with multiple=false and requeue=true, and no
\* positive acknowledgment.
C1_NackOnHandlerError ==
    \A t \in Tags :
        (~autoAck /\ outcome[t] = "err") =>
            /\ Cardinality(AcksOf(t, "nack")) = 1
            /\ \A i \in AcksOf(t, "nack") : ~acked[i].multiple /\ acked[i].requeue
            /\ AcksOf(t, "ack") = {}

C1_Witness ==
    \E t \in Tags : ~autoAck /\ outcome[t] = "err" /\ AcksOf(t, "nack") # {}

\* C2: in manual-ack mode a delivery whose handler returned nil gets exactly one
\* positive acknowledgment, for that delivery alone (multiple=false), and no
\* negative acknowledgment.
C2_AckOnHandlerSuccess ==
    \A t \in Tags :
        (~autoAck /\ outcome[t] = "ok") =>
            /\ Cardinality(AcksOf(t, "ack")) = 1
            /\ \A i \in AcksOf(t, "ack") : ~acked[i].multiple
            /\ AcksOf(t, "nack") = {}

C2_Witness ==
    \E t \in Tags : ~autoAck /\ outcome[t] = "ok" /\ AcksOf(t, "ack") # {}

C4_FailuresDoNotStopTheLoop ==
    ((\E t \in Tags : outcome[t] = "err") \/ (\E i \in 1..Len(acked) : acked[i].failed)) =>
        /\ consumeResult = "nil"
        /\ loopPc = "exited" => (~deliveriesOpen /\ deliveries = <<>>)
        /\ (running = {} /\ deliveries # <<>>) => ENABLED LoopReceive

C4_Witness ==
    /\ deliveriesOpen
    /\ \E i, j, k \in 1..Len(dispatched) :
          /\ i < j /\ j < k
          /\ outcome[dispatched[i]] = "err"
          /\ \E n \in AcksOf(dispatched[j], "ack") : acked[n].failed

\* ====================================================================
\* Properties of SetupDLXForQueue (of TopologySpec)
\* ====================================================================

HasDeadLetterArgs(args, dlxName, dlqName) ==
    /\ "x-dead-letter-exchange" \in DOMAIN args
    /\ args["x-dead-letter-exchange"] = dlxName
    /\ "x-dead-letter-routing-key" \in DOMAIN args
    /\ args["x-dead-letter-routing-key"] = dlqName

CallsAt(site) == {i \in 1..Len(calls) : calls[i].site = site}

Step3Sites == {"probe", "declareAbsent", "delete", "recreate"}

DeadLetterTopologyInPlace ==
    /\ setupArgs.dlxName \in DOMAIN exchanges
    /\ setupArgs.dlqName \in DOMAIN queues
    /\ [queue |-> setupArgs.dlqName, key |-> setupArgs.dlqName,
        exchange |-> setupArgs.dlxName] \in bindings

\* C5: once SetupDLXForQueue has returned nil (in particular against a queue the
\* probe found existing), the DLX exists, the DLQ exists and is bound to the DLX
\* with the DLQ's name as routing key, and the source queue exists with
\* x-dead-letter-exchange = dlx and x-dead-letter-routing-key = dlq.
C5_SetupPostcondition ==
    setupResult = "nil" =>
        /\ DeadLetterTopologyInPlace
        /\ setupArgs.queueName \in DOMAIN queues
        /\ HasDeadLetterArgs(queues[setupArgs.queueName].args,
                             setupArgs.dlxName, setupArgs.dlqName)

C5_Witness ==
    /\ setupResult = "nil"
    /\ queueExists
    /\ \E i \in CallsAt("delete") : ~calls[i].err

\* C6: the calls are issued in the order declare DLX, declare DLQ, bind DLQ, probe,
\* then delete and declare (or declare alone), each only after the one before
\* returned without error; the delete is issued only after the probe reported the
\* queue and with the dead-letter topology in place; and when step 1 or step 2
\* fails an error is returned and no probe, delete or declare of the source queue
\* is issued.
C6_StepOrder ==
    /\ \A i \in 1..Len(calls) :
          /\ calls[i].site = "declareDLX" => i = 1
          /\ calls[i].site = "declareDLQ" => i = 2 /\ ~calls[1].err
          /\ calls[i].site = "bindDLQ" =>
                i = 3 /\ calls[2].site = "declareDLQ" /\ ~calls[2].err
          /\ calls[i].site = "probe" =>
                i = 4 /\ calls[3].site = "bindDLQ" /\ ~calls[3].err
          /\ calls[i].site = "delete" =>
                /\ i = 5 /\ calls[4].site = "probe" /\ ~calls[4].err
                /\ setupArgs.dlxName \in DOMAIN exchanges
                /\ setupArgs.dlqName \in DOMAIN queues
          /\ calls[i].site = "declareAbsent" =>
                i = 5 /\ calls[4].site = "probe" /\ calls[4].err
          /\ calls[i].site = "recreate" => i = 6 /\ calls[5].site = "delete"
    /\ (\E i \in 1..Len(calls) :
            calls[i].site \in {"declareDLX", "declareDLQ", "bindDLQ"} /\ calls[i].err) =>
          /\ setupPc = "done"
          /\ setupResult \in {"failed to setup DLX", "failed to setup DLQ"}
          /\ \A j \in 1..Len(calls) : calls[j].site \notin Step3Sites

C6_Witness ==
    /\ \E i \in CallsAt("delete") : ~calls[i].err
    /\ setupPc = "done"

\* C7: when the queue exists and the delete fails, the failure is not returned:
\* the declare with the dead-letter arguments is the next call and the result of
\* the operation is that declare's.
C7_DeleteFailureIsBestEffort ==
    \A i \in CallsAt("delete") :
        calls[i].err =>
            /\ setupResult \in {"none", "nil", "failed to recreate queue with DLX"}
            /\ setupPc \in {"recreate", "done"}
            /\ setupPc = "done" =>
                  /\ Len(calls) = i + 1
                  /\ calls[i + 1].site = "recreate"
                  /\ calls[i + 1].op = "QueueDeclare"
                  /\ HasDeadLetterArgs(calls[i + 1].attrs.args,
                                       setupArgs.dlxName, setupArgs.dlqName)
                  /\ setupResult = IF calls[i + 1].err
                                   THEN "failed to recreate queue with DLX"
                                   ELSE "nil"

C7_Witness ==
    /\ setupPc = "done"
    /\ \E i \in CallsAt("delete") : calls[i].err
    /\ CallsAt("recreate") # {}

\* C8: when the final declare of the source queue fails, in either branch, the
\* operation returns an error and makes no further call: nothing deletes or
\* unbinds the DLX, the DLQ or the binding, which stay in place where steps 1 and
\* 2 were confirmed by the broker.
C8_NoRollback ==
    \A i \in CallsAt("declareAbsent") \cup CallsAt("recreate") :
        calls[i].err =>
            /\ setupPc = "done"
            /\ setupResult = IF calls[i].site = "recreate"
                             THEN "failed to recreate queue with DLX"
                             ELSE "failed to declare queue with DLX"
            /\ i = Len(calls)
            /\ \A j \in 1..Len(calls) :
                  /\ calls[j].op \in {"ExchangeDeclare", "QueueDeclare", "QueueBind",
                                      "QueueDeclarePassive", "QueueDelete"}
                  /\ calls[j].op = "QueueDelete" =>
                        calls[j].site = "delete" /\ calls[j].name = setupArgs.queueName
            /\ ~setupArgs.options.NoWait => DeadLetterTopologyInPlace

C8_Witness ==
    /\ \E i \in CallsAt("recreate") : calls[i].err
    /\ \E i \in CallsAt("delete") : ~calls[i].err
    /\ DeadLetterTopologyInPlace

\* C9: when the probe fails, which happens only after steps 1 and 2 returned
\* without error, no delete is ever issued: the next call declares the source
\* queue with the dead-letter arguments, and if the operation returns nil the
\* queue exists with x-dead-letter-exchange = dlx and x-dead-letter-routing-key =
\* dlq.
C9_AbsentQueueDeclaredDirectly ==
    \A i \in CallsAt("probe") :
        calls[i].err =>
            /\ i = 4 /\ \A j \in 1..3 : ~calls[j].err
            /\ \A j \in 1..Len(calls) : calls[j].op # "QueueDelete"
            /\ setupPc \in {"declareAbsent", "done"}
            /\ setupPc = "done" =>
                  /\ Len(calls) = 5
                  /\ calls[5].op = "QueueDeclare"
                  /\ calls[5].name = setupArgs.queueName
                  /\ HasDeadLetterArgs(calls[5].attrs.args,
                                       setupArgs.dlxName, setupArgs.dlqName)
            /\ setupResult = "nil" =>
                  /\ setupArgs.queueName \in DOMAIN queues
                  /\ HasDeadLetterArgs(queues[setupArgs.queueName].args,
                                       setupArgs.dlxName, setupArgs.dlqName)

C9_Witness ==
    /\ \E i \in CallsAt("probe") : calls[i].err
    /\ setupResult = "nil"
    /\ setupArgs.queueName \in DOMAIN queues

\* C10: the DLQ is declared with auto-delete and exclusive false whatever the
\* caller's options, and after a nil return the DLQ on the broker is neither.
C10_DLQNeverAutoDelete ==
    /\ \A i \in CallsAt("declareDLQ") :
          /\ calls[i].op = "QueueDeclare"
          /\ calls[i].name = setupArgs.dlqName
          /\ ~calls[i].attrs.autoDelete
          /\ ~calls[i].attrs.exclusive
    /\ setupResult = "nil" =>
          /\ setupArgs.dlqName \in DOMAIN queues
          /\ ~queues[setupArgs.dlqName].autoDelete
          /\ ~queues[setupArgs.dlqName].exclusive

C10_Witness ==
    /\ setupArgs.options.AutoDelete
    /\ setupResult = "nil"
    /\ \E i \in CallsAt("declareDLQ") : ~calls[i].err

\* --------------------------------------------------------------------
\* DeclareQueueWithDLX and DeclareDLQ (of DeclareSpec)
\* --------------------------------------------------------------------

HasArg(args, k, v) == k \in DOMAIN args /\ args[k] = v

DeadLetterKeys == {"x-dead-letter-exchange", "x-dead-letter-routing-key"}

\* The keys DeclareQueueWithDLX writes for the options that are set.
KeysOfSetOptions(options) ==
    (IF options.DLXName # "" THEN DeadLetterKeys ELSE {})
    \cup (IF options.MessageTTL > 0 THEN {"x-message-ttl"} ELSE {})
    \cup (IF options.MaxLength > 0 THEN {"x-max-length"} ELSE {})
    \cup (IF options.MaxPriority > 0 THEN {"x-max-priority"} ELSE {})
    \cup (IF options.MaxRetries > 0 THEN {"x-max-retries"} ELSE {})

\* The value an option gives to the key it writes.
ValueOfOption(queue, options, k) ==
    CASE k = "x-dead-letter-exchange" -> options.DLXName
      [] k = "x-dead-letter-routing-key" ->
            IF options.DLXRoutingKey # "" THEN options.DLXRoutingKey ELSE queue
      [] k = "x-message-ttl" -> options.MessageTTL
      [] k = "x-max-length" -> options.MaxLength
      [] k = "x-max-priority" -> options.MaxPriority
      [] k = "x-max-retries" -> options.MaxRetries

\* C11: DeclareQueueWithDLX declares the queue; with a DLX name the table has
\* x-dead-letter-exchange = DLXName and x-dead-letter-routing-key = DLXRoutingKey,
\* or the queue's own name when that is empty; x-message-ttl = MessageTTL whenever
\* MessageTTL > 0; without a DLX name the dead-letter keys of the table are those
\* the caller's AdditionalArgs brought, and no other.
C11_DeadLetterAndTTLArgs ==
    \A i \in OpsOf("DeclareQueueWithDLX") :
       /\ CallsAt("declareQueueWithDLX") # {}
       /\ \A j \in CallsAt("declareQueueWithDLX") :
             LET options == ops[i].options
                 args == calls[j].attrs.args
             IN
             /\ calls[j].op = "QueueDeclare" /\ calls[j].name = ops[i].queue
             /\ options.DLXName # "" =>
                   HasDeadLetterArgs(args, options.DLXName,
                                     IF options.DLXRoutingKey # ""
                                     THEN options.DLXRoutingKey ELSE ops[i].queue)
             /\ options.MessageTTL > 0 => HasArg(args, "x-message-ttl", options.MessageTTL)
             /\ options.DLXName = "" =>
                   \A k \in DeadLetterKeys :
                      /\ k \in DOMAIN args <=> k \in DOMAIN options.AdditionalArgs
                      /\ k \in DOMAIN args => args[k] = options.AdditionalArgs[k]

C11_Witness ==
    \E i \in OpsOf("DeclareQueueWithDLX") :
       /\ ops[i].options.DLXName # ""
       /\ ops[i].options.DLXRoutingKey = ""
       /\ ops[i].options.MessageTTL > 0
       /\ ops[i].result = "nil"
       /\ \E j \in CallsAt("declareQueueWithDLX") :
             HasArg(calls[j].attrs.args, "x-dead-letter-routing-key", ops[i].queue)

DeadLetterTargets(q) ==
    LET args == queues[q].args IN
    IF DeadLetterKeys \subseteq DOMAIN args
    THEN {b.queue : b \in {x \in bindings :
                              /\ x.exchange = args["x-dead-letter-exchange"]
                              /\ x.exchange \in DOMAIN exchanges
                              /\ exchanges[x.exchange].kind = "direct"
                              /\ x.key = args["x-dead-letter-routing-key"]}}
    ELSE {}

\* C13 as stated: the key DeclareDLQ binds the DLQ with is the key
\* DeclareQueueWithDLX (same DLX, no explicit DLXRoutingKey) writes as
\* x-dead-letter-routing-key, and with both in place on a direct DLX the DLQ is
\* where the queue's dead letters go.
C13_BindingKeyMatchesDeadLetterKey ==
    \A i \in OpsOf("DeclareDLQ"), j \in OpsOf("DeclareQueueWithDLX") :
       (/\ ops[i].result = "nil"
        /\ ops[j].result = "nil"
        /\ ops[j].options.DLXName = ops[i].dlxName
        /\ ops[j].options.DLXRoutingKey = "")
       => /\ \A b \in CallsAt("bindDLQ"), c \in CallsAt("declareQueueWithDLX") :
                /\ calls[b].attrs.key = ops[i].queue
                /\ HasArg(calls[c].attrs.args, "x-dead-letter-routing-key",
                          calls[b].attrs.key)
          /\ (/\ ops[j].queue \in DOMAIN queues
              /\ DLQBinding(ops[i].queue, ops[i].dlxName) \in bindings
              /\ ops[i].dlxName \in DOMAIN exchanges)
             => ops[i].queue \in DeadLetterTargets(ops[j].queue)

\* --------------------------------------------------------------------
\* NewRabbitMQClient and Close (of LifecycleSpec)
\* --------------------------------------------------------------------

\* The k-th call made at a site.
NthCallAt(site, k) ==
    CHOOSE i \in CallsAt(site) : Cardinality({j \in CallsAt(site) : j <= i}) = k

\* What the k-th Close has to report, from what its two closes reported.
FailuresOfClose(k) ==
    (IF calls[NthCallAt("closeChannel", k)].err THEN <<"failed to close channel">>
                                                 ELSE <<>>)
    \o (IF calls[NthCallAt("closeConn", k)].err THEN <<"failed to close connection">>
                                                 ELSE <<>>)

\* C14: every Close asks the channel to close and then the connection, the
\* connection also after the channel close failed; its result is an error exactly
\* when one of the two failed, and the error reports each failure.
C14_CloseAggregates ==
    /\ Cardinality(CallsAt("closeChannel"))
          = Len(closeResults) + (IF closePc \in {"conn", "return"} THEN 1 ELSE 0)
    /\ Cardinality(CallsAt("closeConn"))
          = Len(closeResults) + (IF closePc = "return" THEN 1 ELSE 0)
    /\ \A k \in 1..Len(closeResults) :
          /\ k <= Cardinality(CallsAt("closeChannel"))
          /\ k <= Cardinality(CallsAt("closeConn"))
          /\ NthCallAt("closeChannel", k) < NthCallAt("closeConn", k)
          /\ closeResults[k] # <<>>
                <=> (\/ calls[NthCallAt("closeChannel", k)].err
                     \/ calls[NthCallAt("closeConn", k)].err)
          /\ closeResults[k] = FailuresOfClose(k)

C14_Witness ==
    /\ Len(closeResults) >= 1
    /\ closeResults[1] = <<"failed to close channel", "failed to close connection">>
    /\ conn = "closed"

\* C15: a second Close runs to its end like the first: it asks the channel and
\* the connection to close once more, and returns nil or an error made only of
\* what those two closes reported.
C15_SecondCloseAsksAgain ==
    /\ closePc # "idle" => ENABLED (CloseChannel \/ CloseConnection \/ CloseReturn)
    /\ \A k \in 2..Len(closeResults) :
          /\ Cardinality(CallsAt("closeChannel")) >= k
          /\ Cardinality(CallsAt("closeConn")) >= k
          /\ NthCallAt("closeChannel", k) > NthCallAt("closeConn", k - 1)
          /\ \A n \in 1..Len(closeResults[k]) :
                \/ /\ closeResults[k][n] = "failed to close channel"
                   /\ calls[NthCallAt("closeChannel", k)].err
                \/ /\ closeResults[k][n] = "failed to close connection"
                   /\ calls[NthCallAt("closeConn", k)].err

C15_Witness ==
    /\ Len(closeResults) = 2
    /\ closeResults[1] = <<>>
    /\ closeResults[2] # <<>>
    /\ Cardinality(CallsAt("closeChannel")) = 2

\* C16: a constructor that fails returns no client and leaves no connection
\* open: nothing was opened when the dial failed, and the connection is closed
\* before the return when the channel could not be opened.
C16_NoLeakedConnection ==
    /\ client = "none" => conn # "open"
    /\ client = "ready" <=> \E i \in OpsOf("NewRabbitMQClient") : ops[i].result = "nil"
    /\ Cardinality({i \in OpsOf("NewRabbitMQClient") :
                       ops[i].result = "failed to open channel"})
          = Cardinality(CallsAt("newClientCloseConn"))
    /\ (\A i \in OpsOf("NewRabbitMQClient") :
           ops[i].result = "failed to connect to RabbitMQ") => conn = "none"

C16_Witness ==
    /\ client = "none"
    /\ conn = "closed"
    /\ \E i \in OpsOf("NewRabbitMQClient") : ops[i].result = "failed to open channel"
    /\ CallsAt("newClientCloseConn") # {}

\* --------------------------------------------------------------------
\* Publish and PublishWithOptions (of PublishSpec)
\* --------------------------------------------------------------------

\* The amqp.Publishing of a logged publish call.
PublishingAt(j) == calls[j].attrs.publishing

\* The keys of the caller's headers that the call itself writes after the merge.
KeysWrittenAfterMerge(op) ==
    DOMAIN op.injected \cup (IF op.options.MessageID # "" THEN {"x-message-id"} ELSE {})

\* C17 as stated: every pair of options.Headers is in the published header
\* table with its value, next to the injected trace headers and x-message-id.
C17_EveryUserHeaderKept ==
    \A i \in PublishOps, j \in CallsAt("publish") :
       /\ \A k \in DOMAIN ops[i].options.Headers :
             HasArg(PublishingAt(j).Headers, k, ops[i].options.Headers[k])
       /\ \A k \in DOMAIN ops[i].injected :
             HasArg(PublishingAt(j).Headers, k, ops[i].injected[k])
       /\ ops[i].options.MessageID # "" =>
             HasArg(PublishingAt(j).Headers, "x-message-id", ops[i].options.MessageID)

\* C17: headers are merged, not replaced: every pair of options.Headers is in
\* the published header table with its value unless its key is one the
\* propagator injects or, with a message ID set, x-message-id; those keys hold
\* the injected value and the message ID; the table holds nothing else.
C17_UserHeadersMerged ==
    \A i \in PublishOps, j \in CallsAt("publish") :
       LET headers == PublishingAt(j).Headers
           op == ops[i]
       IN
       /\ \A k \in DOMAIN op.options.Headers \ KeysWrittenAfterMerge(op) :
             HasArg(headers, k, op.options.Headers[k])
       /\ \A k \in DOMAIN op.injected \ {"x-message-id"} : HasArg(headers, k, op.injected[k])
       /\ op.options.MessageID # "" => HasArg(headers, "x-message-id", op.options.MessageID)
       /\ DOMAIN headers = DOMAIN op.options.Headers \cup KeysWrittenAfterMerge(op)

C17_Witness ==
    \E i \in PublishOps, j \in CallsAt("publish") :
       /\ ops[i].options.Headers = ("a" :> "1")
       /\ ops[i].injected # NilTable
       /\ ops[i].options.MessageID # ""
       /\ HasArg(PublishingAt(j).Headers, "a", "1")
       /\ DOMAIN PublishingAt(j).Headers = {"a", "traceparent", "x-message-id"}

\* C18: with a message ID, the published message has it as its message-ID field
\* and as its x-message-id header; without one the field is empty and an
\* x-message-id header is there only as the caller's own header.
C18_MessageIDInFieldAndHeader ==
    \A i \in PublishOps, j \in CallsAt("publish") :
       LET id == ops[i].options.MessageID
           publishing == PublishingAt(j)
       IN
       /\ id # "" => /\ publishing.MessageId = id
                     /\ HasArg(publishing.Headers, "x-message-id", id)
       /\ id = "" => /\ publishing.MessageId = ""
                     /\ "x-message-id" \in DOMAIN publishing.Headers
                           => HasArg(ops[i].options.Headers, "x-message-id",
                                     publishing.Headers["x-message-id"])

C18_Witness ==
    \E i \in PublishOps, j \in CallsAt("publish") :
       /\ ops[i].options.MessageID = "m-1"
       /\ ops[i].options.Headers = ("x-message-id" :> "received-id")
       /\ PublishingAt(j).MessageId = "m-1"
       /\ PublishingAt(j).Headers["x-message-id"] = "m-1"

\* C19: a message with no JSON encoding makes the call return the marshalling
\* error with no call made on the channel; a byte slice is the body as it is, a
\* string is the body as its bytes, and neither returns the marshalling error.
C19_SerializationFailureBeforeBroker ==
    \A i \in PublishOps :
       LET message == ops[i].message IN
       /\ (message.kind \notin {"bytes", "string"} /\ MarshalFails(message))
             => /\ ops[i].result = "failed to marshal message"
                /\ calls = <<>>
                /\ stored = <<>>
                /\ channelOpen
       /\ message.kind \in {"bytes", "string"}
             => /\ ops[i].result # "failed to marshal message"
                /\ CallsAt("publish") # {}
                /\ \A j \in CallsAt("publish") : PublishingAt(j).Body = message.val

C19_Witness ==
    /\ \E i \in PublishOps :
          /\ ops[i].message.kind = "chan"
          /\ ops[i].result = "failed to marshal message"
    /\ calls = <<>>

\* The messages json.Marshal encodes: every type but string and []byte, which
\* PublishWithOptions does not marshal.
IsMarshalled(message) == message.kind \notin {"bytes", "string"}

\* C20 as stated: the body of a delivery of a published payload, parsed as JSON,
\* is the payload (for a byte slice: what the slice itself parses to).
C20_RoundTripForEveryPayload ==
    \A i \in PublishOps, n \in 1..Len(received) :
       LET message == ops[i].message IN
       IF message.kind = "bytes"
       THEN Parse(received[n].Body) = Parse(message.val)
       ELSE Parse(received[n].Body) = message

\* C20: a payload of a type other than string and []byte that was published to
\* an exchange with a routing key is delivered from a queue bound to them with
\* a body that, parsed as JSON, is the payload; a string or []byte payload is
\* delivered with its own bytes as the body.
C20_RoundTripOfMarshalledPayloads ==
    \A i \in PublishOps, n \in 1..Len(received) :
       LET message == ops[i].message
           d == received[n]
       IN
       /\ [queue |-> d.queue, key |-> ops[i].routingKey, exchange |-> ops[i].exchange]
             \in bindings
       /\ d.Exchange = ops[i].exchange /\ d.RoutingKey = ops[i].routingKey
       /\ IsMarshalled(message) => Parse(d.Body) = message
       /\ ~IsMarshalled(message) => d.Body = message.val

C20_Witness ==
    \E i \in PublishOps, n \in 1..Len(received) :
       /\ ops[i].message = JObject(<< <<(<<"i", "d">>), JString(<<"1">>)>> >>)
       /\ ops[i].exchange = EventsExchange
       /\ ops[i].routingKey = RoutingKey
       /\ received[n].queue = QueueName
       /\ Parse(received[n].Body) = ops[i].message

\* --------------------------------------------------------------------
\* Cancellation (of BasicTopologySpec)
\* --------------------------------------------------------------------

\* C21 as stated: an operation whose context was cancelled before its broker call
\* returns a cancellation error, and the broker call is not carried out.
C21_CancelledContextAbortsCall ==
    \A i \in 1..Len(ops) :
       ops[i].ctx = "cancelled" =>
          /\ ops[i].result = "context canceled"
          /\ \A j \in 1..Len(calls) :
                calls[j].name = ops[i].name => calls[j].err

\* --------------------------------------------------------------------
\* The span of a delivery (of TraceSpec)
\* --------------------------------------------------------------------

\* C22: the span a handler runs under has no parent and a trace ID that is not
\* the publisher's; it has one link, to the publisher's span context and with
\* the delivery's message ID, routing key and exchange, exactly when the
\* propagator extracted a valid span context from the delivery's headers, and
\* no link otherwise.
C22_HandlerSpanIsNewRootWithLink ==
    \A n \in 1..Len(received) :
       LET d == received[n]
           extracted == ExtractSpanContext(d.propagator, d.Headers)
       IN
       /\ ~d.span.parent.valid
       /\ extracted.valid => d.span.traceId # extracted.traceId
       /\ d.span.links # <<>> <=> extracted.valid
       /\ extracted.valid =>
             /\ Len(d.span.links) = 1
             /\ d.span.links[1].spanContext = extracted
             /\ d.span.links[1].attributes =
                   [message_id |-> d.MessageId, routing_key |-> d.RoutingKey,
                    exchange |-> d.Exchange]

C22_Witness ==
    \E m, n \in 1..Len(received) :
       /\ received[m].span.links # <<>>
       /\ received[m].span.links[1].attributes.message_id = "m-1"
       /\ received[n].Headers = ("traceparent" :> "garbage")
       /\ received[n].propagator = "tracecontext"
       /\ received[n].span.links = <<>>

\* C27: with AutoAck the client makes no Ack and no Nack call, whether the
\* handlers return nil or an error; and the stream a Consume call opens is always
\* in manual-ack mode.
C27_AutoAckSendsNothing ==
    /\ [](autoAck => acked = <<>>)
    /\ [][Consume => ~autoAck']_vars

\* A consumer with AutoAck whose handler has returned nil for one delivery and an
\* error for another.
C27_Witness ==
    /\ consumeResult = "nil" /\ autoAck
    /\ \E t \in Tags : outcome[t] = "ok"
    /\ \E t \in Tags : outcome[t] = "err"
    /\ acked = <<>>

\* C29: at most one handler invocation is in progress; in manual-ack mode the
\* acks and nacks are issued in the order the deliveries were taken from the
\* stream, one per delivery, and a handler starts only when every delivery taken
\* before has had its ack or nack issued.
C29_AcksInStreamOrder ==
    /\ [](Cardinality(running) <= 1)
    /\ [](~autoAck =>
            /\ Len(acked) = Len(dispatched) - Cardinality(running)
            /\ \A i \in 1..Len(acked) : acked[i].tag = dispatched[i])
    /\ [][(~autoAck /\ dispatched' # dispatched)
             => (running = {} /\ Len(acked) = Len(dispatched))]_vars

\* Every delivery the broker had was handled in manual-ack mode, some
\* acknowledged and some rejected.
C29_Witness ==
    /\ ~autoAck
    /\ Len(acked) = MaxDeliveries
    /\ \E i \in 1..Len(acked) : acked[i].kind = "ack"
    /\ \E i \in 1..Len(acked) : acked[i].kind = "nack"
    /\ \A i \in 1..Len(acked) : acked[i].tag = dispatched[i]

\* ====================================================================
\* Properties of the consumer's lifetime (of ConsumerLiveSpec)
\* ====================================================================

\* A handler the goroutine is inside of and that never returns.
StuckInHandler == \E d \in running : d.tag \in blocked

\* The stream of a started consumer has closed.
StreamClosed == consumeResult = "nil" /\ ~deliveriesOpen

\* C23: once the delivery stream of a ConsumeWithOptions call has closed, the
\* goroutine handles what is still on the stream and ends (unless it is inside a
\* handler that never returns); the stream is never opened again, so the
\* deliveries handled or still to handle never grow after the close, and an ended
\* goroutine dispatches nothing more.
C23_StreamCloseEndsDispatch ==
    /\ [][StreamClosed =>
             /\ ~deliveriesOpen'
             /\ Len(dispatched') + Len(deliveries') = Len(dispatched) + Len(deliveries)]_vars
    /\ [][loopPc = "exited" => (loopPc' = "exited" /\ dispatched' = dispatched)]_vars
    /\ StreamClosed ~> (loopPc = "exited" \/ StuckInHandler)

\* The stream closed while the broker still had messages for the queue, every
\* delivery read before the close was handled, and the goroutine has ended.
C23_Witness ==
    /\ StreamClosed
    /\ loopPc = "exited"
    /\ Len(dispatched) >= 2
    /\ \A i \in 1..Len(dispatched) : outcome[dispatched[i]] # "none"
    /\ nextTag <= MaxDeliveries

\* The tags of the deliveries on the stream.
TagsOnStream == {deliveries[i].tag : i \in 1..Len(deliveries)}

\* The tags of the deliveries handed to the handler so far.
TagsDispatched == {dispatched[i] : i \in 1..Len(dispatched)}

\* C28: the goroutine never looks at the caller's ctx: with the ctx cancelled a
\* delivery on the stream is still taken by the range, handed to the handler
\* with a context that does not descend from the caller's and is not done, and
\* acknowledged or rejected once the handler returns (unless the goroutine is
\* inside a handler that never returns); the goroutine ends only in a step taken
\* with the stream closed and drained.
C28_CancelDoesNotStopConsumption ==
    /\ [](\A i \in 1..Len(handlerCtxs) :
            handlerCtxs[i].ctx.parent = "background" /\ ~handlerCtxs[i].ctx.done)
    /\ []((callerCtx = "cancelled" /\ loopPc = "range" /\ deliveries # <<>>)
            => ENABLED LoopReceive)
    /\ [][(loopPc # "exited" /\ loopPc' = "exited")
             => (~deliveriesOpen /\ deliveries = <<>>)]_vars
    /\ \A t \in Tags :
          /\ (callerCtx = "cancelled" /\ t \in TagsOnStream)
                ~> (t \in TagsDispatched \/ StuckInHandler)
          /\ (callerCtx = "cancelled" /\ t \in TagsDispatched)
                ~> (Completed(t) \/ StuckInHandler)

\* A delivery was handed to the handler after the caller had cancelled its ctx,
\* and was acknowledged or rejected; the stream is still open.
C28_Witness ==
    /\ callerCtx = "cancelled"
    /\ deliveriesOpen
    /\ ~autoAck
    /\ \E i \in 1..Len(handlerCtxs) :
          /\ handlerCtxs[i].caller = "cancelled"
          /\ ~handlerCtxs[i].ctx.done
          /\ Completed(dispatched[i])

\* ====================================================================
\* Properties of redelivery (of RequeueSpec)
\* ====================================================================

\* The retry marker of the consumed queue, 0 when it has none.
RetryMarker ==
    LET args == queues[QueueName].args IN
    IF "x-max-retries" \in DOMAIN args THEN args["x-max-retries"] ELSE 0

SetupDeleteSucceeds == SetupDelete /\ setupArgs.queueName \notin DOMAIN queues'

\* The delete of SetupDLXForQueue was made and the broker carried it out.
DeleteSucceeded == \E i \in CallsAt("delete") : ~calls[i].err

\* The broker operations SetupDLXForQueue is made of.
SetupSites ==
    {"declareDLX", "declareDLQ", "bindDLQ", "probe", "declareAbsent", "delete", "recreate"}

\* C25: the delete of an existing source queue is unconditional (ifUnused and
\* ifEmpty false), so it goes through whatever the queue holds; once it has
\* succeeded the messages the queue held are gone and the queue, recreated or
\* not, holds none when the operation returns; the operation makes no call that
\* reads, moves or republishes messages.
C25_DeleteIsLossy ==
    /\ \A i \in CallsAt("delete") : ~calls[i].attrs.ifUnused /\ ~calls[i].attrs.ifEmpty
    /\ (setupPc = "delete" /\ channelOpen) => ENABLED SetupDeleteSucceeds
    /\ DeleteSucceeded => MessagesIn(setupArgs.queueName) = 0
    /\ \A j \in 1..Len(calls) :
          calls[j].site \in SetupSites =>
             calls[j].op \in {"ExchangeDeclare", "QueueDeclare", "QueueBind",
                              "QueueDeclarePassive", "QueueDelete"}

\* The operation returned nil, its delete dropped a message that was waiting, and
\* the recreated queue is empty.
C25_Witness ==
    /\ setupPc = "done" /\ setupResult = "nil"
    /\ \E i \in CallsAt("delete") : ~calls[i].err /\ calls[i].attrs.purged >= 1
    /\ setupArgs.queueName \in DOMAIN queues
    /\ queues[setupArgs.queueName].messages = 0

\* A Publish that returned nil.
PublishReturnedNil == \E i \in PublishOps : ops[i].result = "nil"

\* C26: Publish is never held back by a SetupDLXForQueue in progress: it can run
\* at every position of the operation; and whenever the operation's delete has
\* succeeded, no published message is in the source queue when the operation has
\* returned, whether the publish returned nil before the delete (routed, then
\* dropped with the queue) or after it (nothing left to route it to the queue).
C26_PublishNotAtomicWithSetup ==
    /\ (client = "ready" /\ PublishOps = {}) => ENABLED PublishDuringSetup
    /\ (setupPc = "done" /\ DeleteSucceeded) => StoredIn(setupArgs.queueName) = <<>>

\* Publish ran after the operation's first broker call and before its delete, and
\* returned nil with the channel left open: the message was routed to the source
\* queue; the delete then dropped it, and the operation returned nil with the
\* recreated queue empty.
C26_Witness ==
    /\ setupPc = "done" /\ setupResult = "nil"
    /\ PublishReturnedNil
    /\ \E p \in CallsAt("publish"), d \in CallsAt("delete") :
          /\ 1 < p /\ p < d
          /\ ~calls[p].err /\ ~calls[d].err
          /\ calls[d].attrs.purged >= 1
    /\ setupArgs.queueName \in DOMAIN queues
    /\ MessagesIn(setupArgs.queueName) = 0

\* The dead-letter arguments SetupDLXForQueue is asked to give the source queue.
RetrofitArgKeys == {"x-dead-letter-exchange", "x-dead-letter-routing-key"}

====
